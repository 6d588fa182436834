---------------------------- MODULE MCBPlusTree ----------------------------
(***************************************************************************)
(* Instances of BPlusTree for TLC.                                         *)
(***************************************************************************)
EXTENDS BPlusTree

\* Every key comes with its own row; key 1 also with another one.
AnyOrder == {<<k, k>> : k \in 1 .. 6} \cup {<<1, 0>>}
NoKeys   == {}
MCAddr   == 1 .. 16

\* Eight even keys make a full root with four leaves; then six keys come, in
\* any order, that can split the first, a middle and the last of the leaves,
\* and the root with it.
EvenKeys == {2 * i : i \in 1 .. 8}
EvenThenOdd == {<<k, k>> : k \in EvenKeys \cup {1, 5, 7, 9, 15, 17}}
=============================================================================
