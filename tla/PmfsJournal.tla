---------------------------- MODULE PmfsJournal ----------------------------
(***************************************************************************)
(* The undo journal of PMFS (pmfs/journal.c): transactions that reserve    *)
(* entries of a circular journal, log old values and then change data in   *)
(* place; a cleaner that gives the entries of finished transactions back;  *)
(* crashes, and the recovery that undoes what did not commit.  Entries are *)
(* told apart from the leftovers of earlier laps by a generation number.   *)
(*                                                                         *)
(* Stores reach the medium in program order.  An entry is one cache line   *)
(* with its generation stored last, and is written in one step.  Redo      *)
(* logging is never switched on (pmfs_journal_hard_init).  transaction_id  *)
(* only serves a BUG_ON and is left out.  What lies behind the end of the  *)
(* journal, where the cleaner's le++ can look, never passes for an entry.  *)
(***************************************************************************)
EXTENDS Integers, FiniteSets, FiniteSetsExt

CONSTANTS
  Threads,
  Addrs,        \* the metadata items that are logged
  Vals,
  JSIZE,        \* entries of the journal
  Sizes,        \* the numbers of entries transactions reserve, the last for the commit
  MAX_GEN_ID,
  Cleaner,      \* the cleaner thread, as a holder of journal_mutex
  None

ASSUME JournalAssumption ==
  /\ JSIZE \in Nat \ {0} /\ Sizes \subseteq 1 .. JSIZE - 1
  /\ MAX_GEN_ID \in Nat \ {0, 1}
  /\ Cleaner \notin Threads /\ None \notin Threads \union Addrs \union {Cleaner}

VARIABLES
  le,                 \* the entries of the journal
  head, tail, gen_id, \* its header
  data,               \* the metadata in place
  mutex,              \* journal_mutex
  tx,                 \* tx[t]: the transaction of a thread
  owner,              \* owner[a]: the thread that has item a locked (by its inode)
  clean,              \* the local variables of pmfs_clean_journal
  wipe,               \* the entries pmfs_invalidate_logentries has yet to invalidate
  mode,               \* "up", "crashed", "undo", "forward": what the mount is doing
  rtail, rgen,        \* the local variables of pmfs_recover_undo_journal
  committed,          \* committed[a]: the value of a the last transaction on it left
  gaps                \* what has happened that the journal does not provide for

journal == <<le, head, tail, gen_id>>
recovery == <<mode, rtail, rgen>>
vars == <<journal, data, mutex, tx, owner, clean, wipe, recovery, committed, gaps>>

Slots == 0 .. JSIZE - 1

next_log_entry(i) == (i + 1) % JSIZE
prev_log_entry_NoWrap(i) == IF i = 0 THEN 0 ELSE i - 1
prev_log_entry(i) == (i - 1) % JSIZE
next_gen_id(g) == IF g = MAX_GEN_ID THEN 1 ELSE g + 1
prev_gen_id(g) == IF g = 1 THEN MAX_GEN_ID ELSE g - 1

Entry(g, s, e, a, v) == [gen |-> g, start |-> s, end |-> e, addr |-> a, old |-> v]
Blank == Entry(0, FALSE, FALSE, None, None)

NoTx == [st |-> "none", n |-> 0, start |-> 0, used |-> 0, gen |-> 0, head |-> 0, freed |-> 0, tries |-> 0]
NoClean == [by |-> None, head |-> 0, tail |-> 0, gen |-> 0, total |-> 0, stop |-> FALSE]

(* The entries from i up to, not including, j. *)
Span(i, j) == {(i + k) % JSIZE : k \in 0 .. ((j - i) % JSIZE) - 1}
Used(h, t) == (t - h) % JSIZE

(* pmfs_journal_hard_init *)
Init ==
  /\ le = [i \in Slots |-> Blank]
  /\ head = 0 /\ tail = 0 /\ gen_id = 1
  /\ \E v \in Vals : data = [a \in Addrs |-> v]
  /\ mutex = None
  /\ tx = [t \in Threads |-> NoTx]
  /\ owner = [a \in Addrs |-> None]
  /\ clean = NoClean /\ wipe = {}
  /\ mode = "up" /\ rtail = 0 /\ rgen = 0
  /\ committed = data
  /\ gaps = {}
-----------------------------------------------------------------------------
(* pmfs_new_transaction takes the mutex and reads head and tail, *)
Begin(t, n) ==
  /\ mode = "up" /\ tx[t].st = "none" /\ mutex = None
  /\ mutex' = t
  /\ tx' = [tx EXCEPT ![t] = [NoTx EXCEPT !.st = "alloc", !.n = n, !.start = tail, !.head = head]]
  /\ UNCHANGED <<journal, data, owner, clean, wipe, recovery, committed, gaps>>

avail_size(x) == (IF x.start >= x.head THEN JSIZE - (x.start - x.head) ELSE x.head - x.start) - 1
Enough(x) == avail_size(x) + x.freed >= x.n

(* ... has the journal cleaned up to three times if it finds too little     *)
(* room, *)
StartCleaning(who) ==
  clean' = [by |-> who, head |-> head, tail |-> tail, total |-> 0, stop |-> FALSE,
            gen |-> IF tail < head THEN prev_gen_id(gen_id) ELSE gen_id]

AllocClean(t) ==
  /\ tx[t].st = "alloc" /\ clean.by = None
  /\ ~Enough(tx[t]) /\ tx[t].tries < 3
  /\ tx' = [tx EXCEPT ![t].tries = @ + 1]
  /\ StartCleaning(t)
  /\ UNCHANGED <<journal, data, mutex, owner, wipe, recovery, committed, gaps>>

(* ... gives up with -EAGAIN, *)
AllocFull(t) ==
  /\ tx[t].st = "alloc" /\ clean.by = None
  /\ ~Enough(tx[t]) /\ tx[t].tries = 3
  /\ mutex' = None
  /\ tx' = [tx EXCEPT ![t] = NoTx]
  /\ UNCHANGED <<journal, data, owner, clean, wipe, recovery, committed, gaps>>

(* Two gaps: "overrun", a reservation reaches entries that are in use;      *)
(* "leftover", the generation numbers start again while entries of the last *)
(* time round, other than of the last generation, are still in the journal. *)
Overrun(by) == IF Used(head, tail) + by >= JSIZE THEN {"overrun"} ELSE {}
Leftover ==
  IF gen_id = MAX_GEN_ID /\ \E i \in Slots : le[i].gen \in 1 .. MAX_GEN_ID - 1
  THEN {"leftover"} ELSE {}

(* ... goes back to the front for a transaction that would not fit before   *)
(* the end, *)
AllocWrap_SameGen(t) ==
  /\ tx[t].st = "alloc" /\ clean.by = None /\ Enough(tx[t])
  /\ tx[t].start + tx[t].n >= JSIZE
  /\ tail' = 0
  /\ tx' = [tx EXCEPT ![t].start = 0, ![t].freed = 0, ![t].tries = 0]
  /\ gaps' = gaps \union Overrun(JSIZE - tail) \union Leftover
  /\ UNCHANGED <<le, head, gen_id, data, mutex, owner, clean, wipe, recovery, committed>>

AllocWrap(t) ==
  /\ tx[t].st = "alloc" /\ clean.by = None /\ Enough(tx[t])
  /\ tx[t].start + tx[t].n >= JSIZE
  /\ tail' = 0
  /\ gen_id' = next_gen_id(gen_id)
  /\ tx' = [tx EXCEPT ![t].start = 0, ![t].freed = 0, ![t].tries = 0]
  /\ gaps' = gaps \union Overrun(JSIZE - tail) \union Leftover
  /\ UNCHANGED <<le, head, data, mutex, owner, clean, wipe, recovery, committed>>

(* ... and moves the tail. *)
AllocTake(t) ==
  /\ tx[t].st = "alloc" /\ clean.by = None /\ Enough(tx[t])
  /\ tx[t].start + tx[t].n < JSIZE
  /\ tail' = tx[t].start + tx[t].n
  /\ mutex' = None
  /\ tx' = [tx EXCEPT ![t] = [NoTx EXCEPT !.st = "run", !.n = tx[t].n, !.start = tx[t].start,
                                          !.gen = gen_id]]
  /\ gaps' = gaps \union Overrun(tx[t].n)
  /\ UNCHANGED <<le, head, gen_id, data, owner, clean, wipe, recovery, committed>>
-----------------------------------------------------------------------------
(* pmfs_add_logentry: the next entry of the transaction, marked as its      *)
(* start when it is the first.                                              *)
Add(t, e, a) ==
  /\ le' = [le EXCEPT ![tx[t].start + tx[t].used] =
              Entry(tx[t].gen, tx[t].used = 0, e, a, IF a = None THEN None ELSE data[a])]

Logged(t, a) == \E i \in tx[t].start .. tx[t].start + tx[t].used - 1 : le[i].addr = a

(* An item is locked and its value logged; the last entry is kept for the   *)
(* commit. *)
Log(t, a) ==
  /\ tx[t].st = "run" /\ tx[t].used < tx[t].n - 1
  /\ owner[a] \in {None, t} /\ ~Logged(t, a)
  /\ Add(t, FALSE, a)
  /\ tx' = [tx EXCEPT ![t].used = @ + 1]
  /\ owner' = [owner EXCEPT ![a] = t]
  /\ UNCHANGED <<head, tail, gen_id, data, mutex, clean, wipe, recovery, committed, gaps>>

(* The caller changes an item it has logged. *)
Store(t, a) ==
  /\ tx[t].st = "run" /\ owner[a] = t
  /\ \E v \in Vals : data' = [data EXCEPT ![a] = v]
  /\ UNCHANGED <<journal, mutex, tx, owner, clean, wipe, recovery, committed, gaps>>

Mine(t) == {a \in Addrs : owner[a] = t}
Finish(t) ==
  /\ tx' = [tx EXCEPT ![t] = NoTx]
  /\ owner' = [a \in Addrs |-> IF owner[a] = t THEN None ELSE owner[a]]
  /\ UNCHANGED <<head, tail, gen_id, mutex, clean, wipe, recovery, gaps>>

(* pmfs_commit_transaction *)
Commit(t) ==
  /\ tx[t].st = "run"
  /\ Add(t, TRUE, None)
  /\ committed' = [a \in Addrs |-> IF a \in Mine(t) THEN data[a] ELSE committed[a]]
  /\ Finish(t)
  /\ UNCHANGED data

(* The entries lo .. hi of generation g undone, the newest first: the       *)
(* oldest entry of an item decides.                                         *)
Undone(lo, hi, g) ==
  [a \in Addrs |->
     LET E == {i \in lo .. hi : le[i].gen = g /\ le[i].addr = a}
     IN  IF E = {} THEN data[a] ELSE le[Min(E)].old]

(* pmfs_abort_transaction undoes and adds an abort record. *)
AbortUndo(t) ==
  /\ tx[t].st = "run"
  /\ data' = Undone(tx[t].start, tx[t].start + tx[t].used - 1, tx[t].gen)
  /\ tx' = [tx EXCEPT ![t].st = "abort"]
  /\ UNCHANGED <<journal, mutex, owner, clean, wipe, recovery, committed, gaps>>

AbortRecord(t) ==
  /\ tx[t].st = "abort"
  /\ Add(t, TRUE, None)
  /\ Finish(t)
  /\ UNCHANGED <<data, committed>>
-----------------------------------------------------------------------------
(* pmfs_log_cleaner, woken up when the journal is more than an eighth full, *)
(* which a small journal is after any transaction.                          *)
CleanerWakes ==
  /\ mode = "up" /\ mutex = None
  /\ mutex' = Cleaner
  /\ StartCleaning(Cleaner)
  /\ UNCHANGED <<journal, data, tx, owner, wipe, recovery, committed, gaps>>

(* pmfs_process_transaction, from the entry h the cleaner has reached: how  *)
(* far it looks, where the head goes and how many entries it counts.  A     *)
(* transaction without its end leaves the head where it is.                 *)
Process(h) ==
  LET Ahead == {i \in h .. JSIZE - 1 : i - h < Used(h, clean.tail) /\ le[i].gen = clean.gen}
      Ends == {i \in Ahead : le[i].end}
      Starts == {i \in Ahead \ {h} : le[i].start}
      ended == Ends # {} /\ \A s \in Starts : Min(Ends) < s
      to == CASE ended -> Min(Ends)
              [] ~ended /\ Starts # {} -> Min(Starts) - 1
              [] OTHER -> h + Used(h, clean.tail) - 1
  IN  IF ~le[h].start
      THEN [head |-> next_log_entry(h), handled |-> 0, done |-> {}]
      ELSE [head |-> IF ended THEN next_log_entry(to) ELSE h,
            handled |-> to - h + 1,
            done |-> IF ended THEN h .. to ELSE {}]

(* The third gap: "passed", the cleaner steps over the entries a             *)
(* transaction has reserved and not yet begun to fill.                       *)
Reserved(t) == tx[t].st \in {"run", "abort"} /\ tx[t].used = 0

(* pmfs_clean_journal: one turn of the loop.  In the last generation what   *)
(* is passed is invalidated, because the numbers start again.               *)
Moves(h, counted) ==
  clean' = [clean EXCEPT !.head = h, !.total = @ + counted, !.stop = (h = clean.head),
                         !.gen = IF h = 0 /\ h # clean.head THEN next_gen_id(@) ELSE @]

CleanStep ==
  /\ clean.by # None /\ wipe = {} /\ ~clean.stop
  /\ clean.head # clean.tail
  /\ LET p == Process(clean.head)
         valid == le[clean.head].gen = clean.gen
     IN  /\ IF valid THEN Moves(p.head, p.handled) ELSE Moves(next_log_entry(clean.head), 0)
         /\ wipe' = IF clean.gen # MAX_GEN_ID THEN {}
                    ELSE IF valid THEN p.done ELSE {clean.head}
         /\ gaps' = IF ~valid /\ \E t \in Threads : Reserved(t) /\ tx[t].start = clean.head
                    THEN gaps \union {"passed"} ELSE gaps
  /\ UNCHANGED <<journal, data, mutex, tx, owner, recovery, committed>>

Wipe ==
  /\ wipe # {}
  /\ le' = [le EXCEPT ![Min(wipe)].gen = 0]
  /\ wipe' = wipe \ {Min(wipe)}
  /\ UNCHANGED <<head, tail, gen_id, data, mutex, tx, owner, clean, recovery, committed, gaps>>

CleanEnd ==
  /\ clean.by # None /\ wipe = {}
  /\ clean.stop \/ clean.head = clean.tail
  /\ head' = clean.head
  /\ IF clean.by = Cleaner
     THEN mutex' = None /\ UNCHANGED tx
     ELSE tx' = [tx EXCEPT ![clean.by].freed = @ + clean.total] /\ UNCHANGED mutex
  /\ clean' = NoClean
  /\ UNCHANGED <<le, tail, gen_id, data, owner, wipe, recovery, committed, gaps>>
-----------------------------------------------------------------------------
(* Power is lost: what is not in the journal, its header or the data goes.  *)
(* The fourth gap: "halfwiped", recovery loses the start of a transaction   *)
(* it is invalidating and keeps its end, which the next recovery takes for  *)
(* the end of the transaction before it.                                    *)
Crash ==
  /\ mode # "crashed"
  /\ mode' = "crashed" /\ rtail' = 0 /\ rgen' = 0
  /\ mutex' = None /\ clean' = NoClean /\ wipe' = {}
  /\ tx' = [t \in Threads |-> NoTx]
  /\ owner' = [a \in Addrs |-> None]
  /\ gaps' = IF mode = "undo" /\ wipe # {} THEN gaps \union {"halfwiped"} ELSE gaps
  /\ UNCHANGED <<journal, data, committed>>

(* pmfs_recover_journal *)
Mount ==
  /\ mode = "crashed"
  /\ IF head = tail
     THEN mode' = "up" /\ UNCHANGED <<rtail, rgen>>
     ELSE mode' = "undo" /\ rtail' = tail /\ rgen' = gen_id
  /\ UNCHANGED <<journal, data, mutex, tx, owner, clean, wipe, committed, gaps>>

(* pmfs_recover_transaction, from the last entry w of a transaction back to *)
(* its start, unless the end of another one or the head comes first.        *)
recover_transaction(w, g) ==
  LET floor == IF head <= w THEN head ELSE 0
      Back == {i \in floor .. w : le[i].gen = g}
      Starts == {i \in Back : le[i].start}
      Ends == {i \in Back \ {w} : le[i].end}
      found == Starts # {} /\ \A e \in Ends : e < Max(Starts)
      low == CASE found -> Max(Starts)
               [] ~found /\ Ends # {} -> Max(Ends) + 1
               [] OTHER -> floor
  IN  [tail |-> low,
       data |-> IF found /\ ~le[w].end THEN Undone(low, w, g) ELSE data,
       done |-> low .. w]

(* pmfs_recover_undo_journal: one turn of the loop, *)
RecoverStep ==
  /\ mode = "undo" /\ wipe = {} /\ rtail # head
  /\ LET g == IF rtail = 0 THEN prev_gen_id(rgen) ELSE rgen
         w == prev_log_entry(rtail)
         r == recover_transaction(w, g)
         valid == le[w].gen = g
     IN  /\ rgen' = g
         /\ rtail' = IF valid THEN r.tail ELSE w
         /\ data' = IF valid THEN r.data ELSE data
         /\ wipe' = IF g # MAX_GEN_ID THEN {} ELSE IF valid THEN r.done ELSE {w}
  /\ UNCHANGED <<journal, mutex, tx, owner, clean, mode, committed, gaps>>

(* ... and pmfs_forward_journal: the rest of the journal is invalidated     *)
(* before the numbers start again, then the generation moves on, then the   *)
(* head.                                                                    *)
Forward ==
  /\ mode = "undo" /\ wipe = {} /\ rtail = head
  /\ mode' = "forward"
  /\ wipe' = IF gen_id = MAX_GEN_ID THEN tail .. JSIZE - 1 ELSE {}
  /\ UNCHANGED <<journal, data, mutex, tx, owner, clean, rtail, rgen, committed, gaps>>

ForwardGen ==
  /\ mode = "forward" /\ wipe = {}
  /\ mode' = "head"
  /\ gen_id' = next_gen_id(gen_id)
  /\ gaps' = gaps \union Leftover
  /\ UNCHANGED <<le, head, tail, data, mutex, tx, owner, clean, wipe, rtail, rgen, committed>>

ForwardHead ==
  /\ mode = "head"
  /\ mode' = "up" /\ rtail' = 0 /\ rgen' = 0
  /\ head' = tail
  /\ UNCHANGED <<le, tail, gen_id, data, mutex, tx, owner, clean, wipe, committed, gaps>>
-----------------------------------------------------------------------------
Alloc(t) == AllocClean(t) \/ AllocFull(t) \/ AllocWrap(t) \/ AllocTake(t)
Recovery == Mount \/ RecoverStep \/ Wipe \/ Forward \/ ForwardGen \/ ForwardHead

Next ==
  \/ \E t \in Threads :
       \/ \E n \in Sizes : Begin(t, n)
       \/ Alloc(t)
       \/ \E a \in Addrs : Log(t, a) \/ Store(t, a)
       \/ Commit(t) \/ AbortUndo(t) \/ AbortRecord(t)
  \/ CleanerWakes \/ CleanStep \/ CleanEnd
  \/ Crash
  \/ Recovery

Spec == Init /\ [][Next]_vars
-----------------------------------------------------------------------------
Settled == \A a \in Addrs : owner[a] = None => data[a] = committed[a]

(* A transaction is all or nothing: while the file system is up, an item    *)
(* no transaction has locked holds what the last committed transaction on   *)
(* it left, whatever crashed, was aborted, wrapped around or took the       *)
(* generation numbers round in between, as long as none of the four gaps    *)
(* has opened.                                                              *)
Atomic == mode = "up" /\ gaps = {} => Settled

(* What the head of journal.c (line 3) promises, consistent updates         *)
(* "against arbitrary power and system failures": the same without the      *)
(* exceptions.                                                              *)
AlwaysAtomic == mode = "up" => Settled

(* Recovery ends: every turn of its loop takes it nearer to the head, by    *)
(* however many entries it skips, and never beyond.                         *)
RecoveryShrinks ==
  [][mode = "undo" /\ mode' = "undo" /\ wipe = {} => Used(head, rtail') < Used(head, rtail)]_vars
=============================================================================
