----------------------------- MODULE Reclamation -----------------------------
(***************************************************************************)
(* What every reclaimer promises (reclaimer_interface.h): a record that is *)
(* retired stays until the operations that ran at that moment have ended.  *)
(* Debra, TokenRing and EpochTree are shown to implement it.               *)
(***************************************************************************)
EXTENDS Records

\* Only what is retired is freed, and only once its grace period is over.
Free ==
    \E freeable \in (SUBSET Records) \ {{}} :
        /\ \A r \in freeable : where[r] = "retired" /\ graced[r] = {}
        /\ Release(freeable)

Next == \/ \E t \in Threads :
              \/ Begin(t) \/ Reach(t) \/ (\E r \in Records : Unlink(t, r))
              \/ Allocate(t) \/ End(t)
        \/ Free

Spec == RecordsInit /\ [][Next]_records

-----------------------------------------------------------------------------
\* No operation has a pointer to freed memory.
NoUseAfterFree == \A t \in Threads : \A r \in held[t] : where[r] # "freed"
=============================================================================
