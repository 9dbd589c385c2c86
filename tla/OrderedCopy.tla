------------------------------ MODULE OrderedCopy ------------------------------
(***************************************************************************)
(* What the memory hierarchy promises: it deals the pixels of an image to  *)
(* three RAMs in their order, every pixel once, to the one cell it belongs *)
(* to, and it may be made to start over with another image at any time.    *)
(* A pixel it loses leaves its cell blank; it never shifts the others.     *)
(***************************************************************************)
EXTENDS Naturals

CONSTANTS
  Size,     (* The pixels of one slice.                                    *)
  Images,   (* The images that may be copied.                              *)
  Blank     (* What a lost pixel leaves.                                   *)

VARIABLES
  image,    (* The image being copied.                                     *)
  copied,   (* How many of its pixels have been dealt.                     *)
  ram       (* ram[k][i], cell i of slice k.                               *)

vars == <<image, copied, ram>>

Init ==
  /\ image \in Images
  /\ copied = 0
  /\ \A k \in 1 .. 3 : \A i \in 0 .. Size - 1 : ram[k][i] = Blank

Deal ==
  \E k \in 1 .. 3, i \in 0 .. Size - 1 :
    /\ copied = (k - 1) * Size + i
    /\ \E pixel \in {image[copied], Blank} :
         ram' = [ram EXCEPT ![k][i] = pixel]
    /\ copied' = copied + 1
    /\ UNCHANGED image

Restart ==
  /\ image' \in Images
  /\ copied' = 0
  /\ UNCHANGED ram

Next == Deal \/ Restart

Spec == Init /\ [][Next]_vars
=============================================================================
