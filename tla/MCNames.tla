------------------------------ MODULE MCNames ------------------------------
EXTENDS Names, TLC

CONSTANTS t1, t2, root, dir, a, b

(* One thread owns all names.  Files move from the directory up to the     *)
(* root, and within the root.                                              *)
OneOwner == [p \in {<<dir, a>>, <<root, a>>, <<root, b>>} |-> t1]
MovesUp ==
  {<< <<dir, a>>, <<root, a>> >>, << <<root, a>>, <<root, b>> >>, << <<root, a>>, <<root, a>> >>}

(* Each thread owns a directory and renames within it. *)
DirOwner == [p \in {root, dir} \X {a, b} |-> IF p[1] = root THEN t1 ELSE t2]
MovesWithin == {<< <<d, a>>, <<d, b>> >> : d \in {root, dir}}
=============================================================================
