----------------------------- MODULE CsarCache -----------------------------
(***************************************************************************)
(* The cache of VNF packages that a VNFM with an external NFVO keeps        *)
(* (nfvo_client.py): who makes, uses and deletes the directory of a VNFD.   *)
(* get_vnfd waits for lock_resources('{vnfd_id}'); the deletion after the   *)
(* last instance of the VNFD is gone takes no lock.  The look for other     *)
(* instances and the start of the deletion are one step here ("race         *)
(* condition of very short time is not considered", coordinate.py).         *)
(***************************************************************************)
EXTENDS Naturals, FiniteSets

CONSTANTS Vnfds, CacheInsts,    \* VNFDs, instances
          CacheApis, CacheOps,  \* threads of the API server, of the conductor
          MaxCacheCrash         \* bounds crashes of the conductor

ASSUME CsarCacheAssumption == MaxCacheCrash \in Nat

VARIABLES csar_dir,     \* csar_dir[d]: "none", "partial" or "whole"
          vnfdId,       \* rows of instances: a function to their VNFDs
          cacheApi,     \* cacheApi[a]: step of a create or delete request
          cacheOp,      \* cacheOp[w]: step of an LCM operation
          cacheCrashes,
          damaged,      \* history: VNFDs whose extraction was cut off by a crash
          swept         \* history: VNFDs whose directory was deleted in use

cacheVars == <<csar_dir, vnfdId, cacheApi, cacheOp, cacheCrashes, damaged, swept>>

NoStep == [pc |-> "idle"]

CsarCacheTypeOK ==
    /\ csar_dir \in [Vnfds -> {"none", "partial", "whole"}]
    /\ vnfdId \in [DOMAIN vnfdId -> Vnfds] /\ DOMAIN vnfdId \subseteq CacheInsts
    /\ \A a \in CacheApis : cacheApi[a].pc \in {"idle", "read", "row", "check", "rmtree"}
    /\ \A w \in CacheOps : cacheOp[w].pc \in {"idle", "get", "make", "read", "use"}
    /\ damaged \subseteq Vnfds /\ swept \subseteq Vnfds

CsarCacheInit ==
    /\ csar_dir = [d \in Vnfds |-> "none"]
    /\ vnfdId = [i \in {} |-> CHOOSE d \in Vnfds : TRUE]
    /\ cacheApi = [a \in CacheApis |-> NoStep]
    /\ cacheOp = [w \in CacheOps |-> NoStep]
    /\ cacheCrashes = 0
    /\ damaged = {}
    /\ swept = {}

\* Who holds lock_resources('{vnfd_id}'): get_vnfd to its end.
VnfdLockFree(d) ==
    /\ \A a \in CacheApis : cacheApi[a].pc = "read" => cacheApi[a].vnfd # d
    /\ \A w \in CacheOps : cacheOp[w].pc \in {"make", "read"} => cacheOp[w].vnfd # d

\* The LCM driver refuses a second operation, and the deletion of an instance
\* with an operation in progress.
Operating(i) == \E w \in CacheOps : cacheOp[w].pc # "idle" /\ cacheOp[w].inst = i
Requested(i) == \E a \in CacheApis : cacheApi[a].pc # "idle" /\ cacheApi[a].inst = i

----------------------------------------------------------------------------
(* The API server: POST and DELETE vnf_instances. *)

\* get_vnfd without all_contents: the cache is used if there is one, else the
\* VNFD alone is fetched and nothing is cached.
get_vnfd_create(a, i, d) ==
    /\ cacheApi[a].pc = "idle"
    /\ i \notin DOMAIN vnfdId
    /\ ~Requested(i)
    /\ VnfdLockFree(d)
    /\ cacheApi' = [cacheApi EXCEPT ![a] =
                        [pc |-> IF csar_dir[d] = "none" THEN "row" ELSE "read", inst |-> i, vnfd |-> d]]
    /\ UNCHANGED <<csar_dir, vnfdId, cacheOp, cacheCrashes, damaged, swept>>

\* init_from_csar_dir: what is missing makes it raise, and the request fail.
init_from_csar_dir(a) ==
    /\ cacheApi[a].pc = "read"
    /\ cacheApi' = [cacheApi EXCEPT ![a] =
                        IF csar_dir[cacheApi[a].vnfd] = "whole" THEN [@ EXCEPT !.pc = "row"] ELSE NoStep]
    /\ UNCHANGED <<csar_dir, vnfdId, cacheOp, cacheCrashes, damaged, swept>>

create_inst(a) ==
    /\ cacheApi[a].pc = "row"
    /\ vnfdId' = [i \in DOMAIN vnfdId \cup {cacheApi[a].inst} |->
                      IF i = cacheApi[a].inst THEN cacheApi[a].vnfd ELSE vnfdId[i]]
    /\ cacheApi' = [cacheApi EXCEPT ![a] = NoStep]
    /\ UNCHANGED <<csar_dir, cacheOp, cacheCrashes, damaged, swept>>

delete_inst(a, i) ==
    /\ cacheApi[a].pc = "idle"
    /\ i \in DOMAIN vnfdId
    /\ ~Operating(i)
    /\ vnfdId' = [x \in DOMAIN vnfdId \ {i} |-> vnfdId[x]]
    /\ cacheApi' = [cacheApi EXCEPT ![a] = [pc |-> "check", inst |-> i, vnfd |-> vnfdId[i]]]
    /\ UNCHANGED <<csar_dir, cacheOp, cacheCrashes, damaged, swept>>

\* rmtree of d is under way.
BeingDeleted(d) == \E a \in CacheApis : cacheApi[a].pc = "rmtree" /\ cacheApi[a].vnfd = d

\* Someone works with the directory of d who has no row that says so: another
\* deletion, the creation of an instance, a CHANGE_VNFPKG to d.
InUse(d) ==
    \/ BeingDeleted(d)
    \/ \E a \in CacheApis : cacheApi[a].pc \in {"read", "row"} /\ cacheApi[a].vnfd = d
    \/ \E w \in CacheOps : cacheOp[w].pc # "idle" /\ cacheOp[w].vnfd = d /\ vnfdId[cacheOp[w].inst] # d

\* Mutant of _delete_csar_cache: other instances are not looked for.
DeleteCacheAlways(a) ==
    LET d == cacheApi[a].vnfd
        keep == csar_dir[d] = "none"
    IN
    /\ cacheApi[a].pc = "check"
    /\ csar_dir' = IF keep THEN csar_dir ELSE [csar_dir EXCEPT ![d] = "partial"]
    /\ cacheApi' = [cacheApi EXCEPT ![a] = IF keep THEN NoStep ELSE [@ EXCEPT !.pc = "rmtree"]]
    /\ swept' = IF ~keep /\ InUse(d) THEN swept \cup {d} ELSE swept
    /\ UNCHANGED <<vnfdId, cacheOp, cacheCrashes, damaged>>

_delete_csar_cache(a) ==
    LET d == cacheApi[a].vnfd
        keep == csar_dir[d] = "none" \/ \E i \in DOMAIN vnfdId : vnfdId[i] = d
    IN
    /\ cacheApi[a].pc = "check"
    /\ csar_dir' = IF keep THEN csar_dir ELSE [csar_dir EXCEPT ![d] = "partial"]
    /\ cacheApi' = [cacheApi EXCEPT ![a] = IF keep THEN NoStep ELSE [@ EXCEPT !.pc = "rmtree"]]
    /\ swept' = IF ~keep /\ InUse(d) THEN swept \cup {d} ELSE swept
    /\ UNCHANGED <<vnfdId, cacheOp, cacheCrashes, damaged>>

\* The end of rmtree.
_delete_csar_dir(a) ==
    /\ cacheApi[a].pc = "rmtree"
    /\ csar_dir' = [csar_dir EXCEPT ![cacheApi[a].vnfd] = "none"]
    /\ damaged' = damaged \ {cacheApi[a].vnfd}
    /\ cacheApi' = [cacheApi EXCEPT ![a] = NoStep]
    /\ UNCHANGED <<vnfdId, cacheOp, cacheCrashes, swept>>

----------------------------------------------------------------------------
(* The conductor: an operation on instance i, with the package of VNFD d, *)
(* which is another one than the instance's for CHANGE_VNFPKG.            *)

start_op(w, i, d) ==
    /\ cacheOp[w].pc = "idle"
    /\ i \in DOMAIN vnfdId
    /\ ~Operating(i)
    /\ cacheOp' = [cacheOp EXCEPT ![w] = [pc |-> "get", inst |-> i, vnfd |-> d]]
    /\ UNCHANGED <<csar_dir, vnfdId, cacheApi, cacheCrashes, damaged, swept>>

\* get_vnfd with all_contents=True.
get_vnfd(w) ==
    LET d == cacheOp[w].vnfd IN
    /\ cacheOp[w].pc = "get"
    /\ VnfdLockFree(d)
    /\ cacheOp' = [cacheOp EXCEPT ![w].pc = IF csar_dir[d] = "none" THEN "make" ELSE "read"]
    /\ csar_dir' = [csar_dir EXCEPT ![d] = IF @ = "none" THEN "partial" ELSE @]
    /\ UNCHANGED <<vnfdId, cacheApi, cacheCrashes, damaged, swept>>

\* Mutant of _make_csar_cache: the directory of a package that could not be
\* extracted stays.
MakeCacheNoCleanup(w) ==
    /\ cacheOp[w].pc = "make"
    /\ \/ /\ csar_dir' = [csar_dir EXCEPT ![cacheOp[w].vnfd] = "whole"]
          /\ cacheOp' = [cacheOp EXCEPT ![w].pc = "read"]
       \/ /\ cacheOp' = [cacheOp EXCEPT ![w] = NoStep]
          /\ UNCHANGED csar_dir
    /\ UNCHANGED <<vnfdId, cacheApi, cacheCrashes, damaged, swept>>

_make_csar_cache(w) ==
    LET d == cacheOp[w].vnfd IN
    /\ cacheOp[w].pc = "make"
    /\ \/ /\ csar_dir' = [csar_dir EXCEPT ![d] = "whole"]
          /\ cacheOp' = [cacheOp EXCEPT ![w].pc = "read"]
       \/ /\ csar_dir' = [csar_dir EXCEPT ![d] = "none"]
          /\ cacheOp' = [cacheOp EXCEPT ![w] = NoStep]
    /\ UNCHANGED <<vnfdId, cacheApi, cacheCrashes, damaged, swept>>

\* init_from_csar_dir, then the operation runs scripts from the directory.
read_op(w) ==
    /\ cacheOp[w].pc = "read"
    /\ cacheOp' = [cacheOp EXCEPT ![w] =
                       IF csar_dir[cacheOp[w].vnfd] = "whole" THEN [@ EXCEPT !.pc = "use"] ELSE NoStep]
    /\ UNCHANGED <<csar_dir, vnfdId, cacheApi, cacheCrashes, damaged, swept>>

\* An operation that succeeds with another package changes the VNFD.
end_op(w) ==
    /\ cacheOp[w].pc = "use"
    /\ cacheOp' = [cacheOp EXCEPT ![w] = NoStep]
    /\ \E d \in {vnfdId[cacheOp[w].inst], cacheOp[w].vnfd} :
          vnfdId' = [vnfdId EXCEPT ![cacheOp[w].inst] = d]
    /\ UNCHANGED <<csar_dir, cacheApi, cacheCrashes, damaged, swept>>

crash_op ==
    /\ cacheCrashes < MaxCacheCrash
    /\ \E w \in CacheOps : cacheOp[w].pc # "idle"
    /\ cacheCrashes' = cacheCrashes + 1
    /\ damaged' = damaged \cup {d \in Vnfds : \E w \in CacheOps :
                                    cacheOp[w].pc = "make" /\ cacheOp[w].vnfd = d}
    /\ cacheOp' = [w \in CacheOps |-> NoStep]
    /\ UNCHANGED <<csar_dir, vnfdId, cacheApi, swept>>

----------------------------------------------------------------------------
CsarCacheNext ==
    \/ \E a \in CacheApis, i \in CacheInsts, d \in Vnfds : get_vnfd_create(a, i, d)
    \/ \E a \in CacheApis, i \in CacheInsts : delete_inst(a, i)
    \/ \E a \in CacheApis :
          init_from_csar_dir(a) \/ create_inst(a) \/ _delete_csar_cache(a) \/ _delete_csar_dir(a)
    \/ \E w \in CacheOps, i \in CacheInsts, d \in Vnfds : start_op(w, i, d)
    \/ \E w \in CacheOps : get_vnfd(w) \/ _make_csar_cache(w) \/ read_op(w) \/ end_op(w)
    \/ crash_op

CsarCacheSpec == CsarCacheInit /\ [][CsarCacheNext]_cacheVars

----------------------------------------------------------------------------
(* Properties *)

\* The package of an operation on an instance of its VNFD is complete to the
\* end of the operation: other instances come and go, the first one's row keeps
\* it.  (A directory deleted while a CHANGE_VNFPKG to that VNFD or the creation
\* of an instance used it has no such guarantee: neither has a row yet.)
OwnPackageStays ==
    \A w \in CacheOps :
        cacheOp[w].pc = "use" /\ cacheOp[w].vnfd \notin swept /\ vnfdId[cacheOp[w].inst] = cacheOp[w].vnfd
            => csar_dir[cacheOp[w].vnfd] = "whole"

\* A directory that is incomplete is being extracted or deleted by someone, or
\* was left by a crash of the conductor or deleted in use: no error path leaves
\* one behind that get_vnfd would take for the package.
NoPartialCache ==
    \A d \in Vnfds \ (damaged \cup swept) :
        csar_dir[d] = "partial" =>
            BeingDeleted(d) \/ \E w \in CacheOps : cacheOp[w].pc = "make" /\ cacheOp[w].vnfd = d

============================================================================
