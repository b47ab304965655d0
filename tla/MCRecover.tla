----------------------------- MODULE MCRecover -----------------------------
EXTENDS Recover, TLC

CONSTANTS i0, i1, i2, i3, s1, s2, s3, s4, s5

(* A root directory with two entries and a subdirectory with one.  A ghost  *)
(* slot never used before holds inode 0.                                   *)
Tree ==
  [head |-> (i0 :> s1 @@ i1 :> s4 @@ i2 :> Null @@ i3 :> Null),
   ino  |-> (s1 :> i1 @@ s2 :> i2 @@ s3 :> i0 @@ s4 :> i3 @@ s5 :> i0),
   next |-> (s1 :> s2 @@ s2 :> s3 @@ s3 :> Null @@ s4 :> s5 @@ s5 :> Null)]

(* Two subdirectories with one entry between them; the ghost of the second *)
(* still holds the inode number of an entry removed from it.               *)
Recycled ==
  [head |-> (i0 :> s1 @@ i1 :> s3 @@ i2 :> s5 @@ i3 :> Null),
   ino  |-> (s1 :> i1 @@ s2 :> i2 @@ s3 :> i0 @@ s4 :> i0 @@ s5 :> i3),
   next |-> (s1 :> s2 @@ s2 :> s4 @@ s3 :> Null @@ s4 :> Null @@ s5 :> Null)]

MCImages   == {Tree, Recycled}
OwnByte    == [b \in Inodes \union Dirents |-> b]
SharedByte == [b \in Inodes \union Dirents |-> IF b \in Inodes THEN i0 ELSE s1]
=============================================================================
