----------------------------- MODULE MCServices -----------------------------
(***************************************************************************)
(* The services around the VNF LCM for TLC.  They share no state, so each   *)
(* behaviour runs one of them, chosen at the start, and leaves the others   *)
(* in their initial states: their state spaces add up, not multiply.        *)
(***************************************************************************)
EXTENDS AutoHealTimer, FaultManagement, PmJob, PmThreshold, CsarCache, ServerNotifier, LcmV1,
        VnfPackages

VARIABLE part

TwoHosts == <<"host1", "host2">>

Init ==
    /\ part \in {"heal", "fm", "pmJob", "pmThreshold", "cache", "notifier", "v1", "packages"}
    /\ HealInit /\ FmInit /\ PmJobInit /\ PmThresholdInit /\ CsarCacheInit /\ ServerNotifierInit
    /\ LcmV1Init /\ VnfPackagesInit

Next ==
    /\ UNCHANGED part
    /\ \/ /\ part = "heal" /\ HealNext
          /\ UNCHANGED <<fmVars, jobVars, thrVars, cacheVars, snVars, v1Vars, pkgVars>>
       \/ /\ part = "fm" /\ FmNext
          /\ UNCHANGED <<healVars, jobVars, thrVars, cacheVars, snVars, v1Vars, pkgVars>>
       \/ /\ part = "pmJob" /\ PmJobNext
          /\ UNCHANGED <<healVars, fmVars, thrVars, cacheVars, snVars, v1Vars, pkgVars>>
       \/ /\ part = "pmThreshold" /\ PmThresholdNext
          /\ UNCHANGED <<healVars, fmVars, jobVars, cacheVars, snVars, v1Vars, pkgVars>>
       \/ /\ part = "cache" /\ CsarCacheNext
          /\ UNCHANGED <<healVars, fmVars, jobVars, thrVars, snVars, v1Vars, pkgVars>>
       \/ /\ part = "notifier" /\ ServerNotifierNext
          /\ UNCHANGED <<healVars, fmVars, jobVars, thrVars, cacheVars, v1Vars, pkgVars>>
       \/ /\ part = "v1" /\ LcmV1Next
          /\ UNCHANGED <<healVars, fmVars, jobVars, thrVars, cacheVars, snVars, pkgVars>>
       \/ /\ part = "packages" /\ VnfPackagesNext
          /\ UNCHANGED <<healVars, fmVars, jobVars, thrVars, cacheVars, snVars, v1Vars>>

serviceVars == <<part, healVars, fmVars, jobVars, thrVars, cacheVars, snVars, v1Vars, pkgVars>>

Spec == Init /\ [][Next]_serviceVars /\ HealFairness /\ LcmV1Fairness

============================================================================
