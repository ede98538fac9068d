------------------------------ MODULE Spinlock ------------------------------
(***************************************************************************)
(* The test-and-set lock of spinlock.cpp, as operators over a variable that *)
(* holds the lock word.  A processor that finds the word set goes round the *)
(* loop again: Lock is simply not enabled, and whether an interrupt can get *)
(* it out of the loop is up to the module that uses the lock.               *)
(***************************************************************************)

Unlocked == 0
Locked   == 1

(* Mutant of Lock: the carry of bts is not looked at. *)
LockUntested(word) == word' = Locked

(* test / jnz, then lock bts / jc: the word is seen clear and set at once. *)
Lock(word) == /\ word = Unlocked
              /\ word' = Locked

(* A plain store: nothing checks who held the lock, or that it was held. *)
Release(word) == word' = Unlocked
=============================================================================
