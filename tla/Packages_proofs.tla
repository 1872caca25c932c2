-------------------------- MODULE Packages_proofs --------------------------
(***************************************************************************)
(* Packages, in the cache of the v2 stack and in the package service.       *)
(*                                                                         *)
(* The cache: a package in use stays whole and no error path leaves an      *)
(* incomplete one, for any number of VNFDs, instances, requests and         *)
(* operations.                                                              *)
(*                                                                         *)
(* The package service: PkgInv says, for each onboarding state of a         *)
(* package, what is in the store, in the tables, in the queues and at the   *)
(* conductors.  Its heart is PROCESSING: downloading is the number of       *)
(* conductors at work, until one of them finds 0 and is alone.  A step of   *)
(* one package leaves the others alone (Same), so that every action has to  *)
(* be followed for its own package only.                                    *)
(***************************************************************************)
EXTENDS CsarCache, VnfPackages, FiniteSetTheorems, TLAPS

(* The cache *)

ApiCall == [pc : {"read", "row", "check", "rmtree"}, inst : CacheInsts, vnfd : Vnfds]
OpCall == [pc : {"get", "make", "read", "use"}, inst : CacheInsts, vnfd : Vnfds]

\* Directories, rows and threads have the fields the code reads.
CacheTypes ==
    /\ csar_dir \in [Vnfds -> {"none", "partial", "whole"}]
    /\ vnfdId \in [DOMAIN vnfdId -> Vnfds] /\ DOMAIN vnfdId \subseteq CacheInsts
    /\ cacheApi \in [CacheApis -> {NoStep} \cup ApiCall]
    /\ cacheOp \in [CacheOps -> {NoStep} \cup OpCall]

\* The instance of an operation has a row: it is not deleted meanwhile.
OpRows == \A w \in CacheOps : cacheOp[w].pc # "idle" => cacheOp[w].inst \in DOMAIN vnfdId

Making(w, d) == cacheOp[w].pc = "make" /\ cacheOp[w].vnfd = d
Using(w, d) == cacheOp[w].pc = "use" /\ cacheOp[w].vnfd = d
Deleting(a, d) == cacheApi[a].pc = "rmtree" /\ cacheApi[a].vnfd = d

\* The directory of a VNFD that was not swept is what its users take it for:
\* whole while an operation uses it, and otherwise in one pair of hands.
DirOk(d) ==
    /\ \A w \in CacheOps : Using(w, d) => csar_dir[d] = "whole"
    /\ \A w \in CacheOps : Making(w, d) => csar_dir[d] = "partial" /\ \A v \in CacheOps : Making(v, d) => v = w
    /\ \A a \in CacheApis : Deleting(a, d) =>
          /\ csar_dir[d] = "partial"
          /\ \A b \in CacheApis : Deleting(b, d) => b = a
          /\ \A w \in CacheOps : ~Making(w, d)

\* An incomplete directory has somebody who completes or deletes it.
Attended(d) ==
    csar_dir[d] = "partial" => (\E a \in CacheApis : Deleting(a, d)) \/ (\E w \in CacheOps : Making(w, d))

CacheInv ==
    /\ CacheTypes /\ OpRows
    /\ \A d \in Vnfds \ swept : DirOk(d)
    /\ \A d \in Vnfds \ (swept \cup damaged) : Attended(d)

\* The fields of a thread's call, from its step.
LEMMA CacheCalls ==
    ASSUME CacheTypes
    PROVE  /\ \A a \in CacheApis : cacheApi[a].pc # "idle" =>
                 cacheApi[a] \in ApiCall /\ cacheApi[a].inst \in CacheInsts /\ cacheApi[a].vnfd \in Vnfds
           /\ \A w \in CacheOps : cacheOp[w].pc # "idle" =>
                 cacheOp[w] \in OpCall /\ cacheOp[w].inst \in CacheInsts /\ cacheOp[w].vnfd \in Vnfds
BY DEF CacheTypes, NoStep, ApiCall, OpCall

\* A step of one request thread.
LEMMA ApiMoves ==
    ASSUME CacheTypes, NEW a \in CacheApis, NEW c \in {NoStep} \cup ApiCall,
           cacheApi' = [cacheApi EXCEPT ![a] = c]
    PROVE  /\ cacheApi' \in [CacheApis -> {NoStep} \cup ApiCall]
           /\ cacheApi'[a] = c
           /\ \A x \in CacheApis : x # a => cacheApi'[x] = cacheApi[x]
BY DEF CacheTypes

\* A step of one operation.
LEMMA OpMoves ==
    ASSUME CacheTypes, NEW w \in CacheOps, NEW c \in {NoStep} \cup OpCall,
           cacheOp' = [cacheOp EXCEPT ![w] = c]
    PROVE  /\ cacheOp' \in [CacheOps -> {NoStep} \cup OpCall]
           /\ cacheOp'[w] = c
           /\ \A x \in CacheOps : x # w => cacheOp'[x] = cacheOp[x]
BY DEF CacheTypes

\* A request that neither starts nor ends a deletion.
LEMMA RequestSteps ==
    ASSUME CacheInv, NEW a \in CacheApis,
           \/ \E i \in CacheInsts, d \in Vnfds : get_vnfd_create(a, i, d)
           \/ \E i \in CacheInsts : delete_inst(a, i)
           \/ init_from_csar_dir(a)
           \/ create_inst(a)
    PROVE  CacheInv'
<1> USE DEF CacheInv
<1>1. PICK c \in {NoStep} \cup ApiCall : c.pc # "rmtree" /\ cacheApi' = [cacheApi EXCEPT ![a] = c]
  <2>1. ASSUME NEW i \in CacheInsts, NEW d \in Vnfds, get_vnfd_create(a, i, d)
        PROVE  \E c \in {NoStep} \cup ApiCall : c.pc # "rmtree" /\ cacheApi' = [cacheApi EXCEPT ![a] = c]
    <3> DEFINE c == [pc |-> IF csar_dir[d] = "none" THEN "row" ELSE "read", inst |-> i, vnfd |-> d]
    <3>1. c \in ApiCall /\ c.pc # "rmtree"
      BY DEF ApiCall
    <3> QED BY <2>1, <3>1 DEF get_vnfd_create
  <2>2. ASSUME NEW i \in CacheInsts, delete_inst(a, i)
        PROVE  \E c \in {NoStep} \cup ApiCall : c.pc # "rmtree" /\ cacheApi' = [cacheApi EXCEPT ![a] = c]
    <3> DEFINE c == [pc |-> "check", inst |-> i, vnfd |-> vnfdId[i]]
    <3>1. c \in ApiCall /\ c.pc # "rmtree"
      BY <2>2 DEF ApiCall, CacheTypes, delete_inst
    <3> QED BY <2>2, <3>1 DEF delete_inst
  <2>3. CASE init_from_csar_dir(a)
    <3>1. cacheApi[a] \in ApiCall
      BY <2>3, CacheCalls DEF init_from_csar_dir
    <3>2. [cacheApi[a] EXCEPT !.pc = "row"] \in ApiCall /\ [cacheApi[a] EXCEPT !.pc = "row"].pc = "row"
      BY <3>1 DEF ApiCall
    <3>3. cacheApi' = [cacheApi EXCEPT ![a] = NoStep] \/ cacheApi' = [cacheApi EXCEPT ![a] = [cacheApi[a] EXCEPT !.pc = "row"]]
      BY <2>3 DEF init_from_csar_dir
    <3> QED BY <3>2, <3>3 DEF NoStep
  <2>4. CASE create_inst(a)
    BY <2>4 DEF create_inst, NoStep
  <2> QED BY <2>1, <2>2, <2>3, <2>4
<1>2. /\ cacheApi' \in [CacheApis -> {NoStep} \cup ApiCall]
      /\ cacheApi'[a] = c
      /\ \A x \in CacheApis : x # a => cacheApi'[x] = cacheApi[x]
  BY <1>1, ApiMoves
<1>3. UNCHANGED <<csar_dir, cacheOp, damaged, swept>> /\ cacheApi[a].pc # "rmtree"
  BY DEF get_vnfd_create, delete_inst, init_from_csar_dir, create_inst
<1>4. /\ vnfdId' \in [DOMAIN vnfdId' -> Vnfds] /\ DOMAIN vnfdId' \subseteq CacheInsts
      /\ \A w \in CacheOps : cacheOp[w].pc # "idle" => cacheOp[w].inst \in DOMAIN vnfdId'
  <2>1. ASSUME NEW i \in CacheInsts, NEW d \in Vnfds, get_vnfd_create(a, i, d) PROVE UNCHANGED vnfdId
    BY <2>1 DEF get_vnfd_create
  <2>2. ASSUME NEW i \in CacheInsts, delete_inst(a, i)
        PROVE  /\ vnfdId' \in [DOMAIN vnfdId' -> Vnfds] /\ DOMAIN vnfdId' \subseteq CacheInsts
               /\ \A w \in CacheOps : cacheOp[w].pc # "idle" => cacheOp[w].inst \in DOMAIN vnfdId'
    BY <2>2 DEF delete_inst, CacheTypes, OpRows, Operating
  <2>3. CASE create_inst(a)
    <3>1. cacheApi[a].inst \in CacheInsts /\ cacheApi[a].vnfd \in Vnfds
      BY <2>3, CacheCalls DEF create_inst
    <3> QED BY <2>3, <3>1 DEF create_inst, CacheTypes, OpRows
  <2>4. CASE UNCHANGED vnfdId
    BY <2>4 DEF CacheTypes, OpRows
  <2> QED BY <2>1, <2>2, <2>3, <2>4 DEF init_from_csar_dir
<1>5. CacheTypes' /\ OpRows'
  BY <1>2, <1>3, <1>4 DEF CacheTypes, OpRows
<1>6. /\ \A x \in CacheApis, d \in Vnfds : Deleting(x, d)' <=> Deleting(x, d)
      /\ \A w \in CacheOps, d \in Vnfds : (Making(w, d)' <=> Making(w, d)) /\ (Using(w, d)' <=> Using(w, d))
  BY <1>1, <1>2, <1>3 DEF Deleting, Making, Using
<1>7. \A d \in (Vnfds \ swept)' : DirOk(d)'
  BY <1>3, <1>6 DEF DirOk
<1>8. \A d \in (Vnfds \ (swept \cup damaged))' : Attended(d)'
  BY <1>3, <1>6 DEF Attended
<1> QED BY <1>5, <1>7, <1>8

\* The deletion starts: with no instance of the VNFD, whoever works with the
\* directory has no row, and the directory counts as swept.
LEMMA DeleteStartStep ==
    ASSUME CacheInv, NEW a \in CacheApis, _delete_csar_cache(a)
    PROVE  CacheInv'
<1> USE DEF CacheInv
<1> DEFINE d == cacheApi[a].vnfd
           keep == csar_dir[d] = "none" \/ \E i \in DOMAIN vnfdId : vnfdId[i] = d
<1>1. /\ d \in Vnfds /\ cacheApi[a] \in ApiCall /\ cacheApi[a].pc = "check"
      /\ UNCHANGED <<vnfdId, cacheOp, damaged>>
  BY CacheCalls DEF _delete_csar_cache
<1>2. CASE keep
  <2>1. UNCHANGED <<csar_dir, swept>> /\ cacheApi' = [cacheApi EXCEPT ![a] = NoStep]
    BY <1>2 DEF _delete_csar_cache
  <2>2. /\ cacheApi' \in [CacheApis -> {NoStep} \cup ApiCall]
        /\ cacheApi'[a] = NoStep
        /\ \A x \in CacheApis : x # a => cacheApi'[x] = cacheApi[x]
    BY <2>1, ApiMoves
  <2>3. CacheTypes' /\ OpRows'
    BY <1>1, <2>1, <2>2 DEF CacheTypes, OpRows
  <2>4. /\ \A x \in CacheApis, e \in Vnfds : Deleting(x, e)' <=> Deleting(x, e)
        /\ \A w \in CacheOps, e \in Vnfds : (Making(w, e)' <=> Making(w, e)) /\ (Using(w, e)' <=> Using(w, e))
    BY <1>1, <2>2 DEF Deleting, Making, Using, NoStep
  <2> QED BY <1>1, <2>1, <2>3, <2>4 DEF DirOk, Attended
<1>3. CASE ~keep
  <2> DEFINE c == [cacheApi[a] EXCEPT !.pc = "rmtree"]
  <2>1. /\ csar_dir' = [csar_dir EXCEPT ![d] = "partial"]
        /\ cacheApi' = [cacheApi EXCEPT ![a] = c]
        /\ swept' = IF InUse(d) THEN swept \cup {d} ELSE swept
    BY <1>3 DEF _delete_csar_cache
  <2>2. c \in ApiCall /\ c.pc = "rmtree" /\ c.vnfd = d
    BY <1>1 DEF ApiCall
  <2>3. /\ cacheApi' \in [CacheApis -> {NoStep} \cup ApiCall]
        /\ cacheApi'[a] = c
        /\ \A x \in CacheApis : x # a => cacheApi'[x] = cacheApi[x]
    BY <2>1, <2>2, ApiMoves
  <2>4. \A e \in Vnfds : csar_dir'[e] = IF e = d THEN "partial" ELSE csar_dir[e]
    BY <2>1 DEF CacheTypes
  <2>5. CacheTypes' /\ OpRows'
    BY <1>1, <2>1, <2>3 DEF CacheTypes, OpRows
  <2> HIDE DEF c
  <2>6. ~InUse(d) => /\ \A x \in CacheApis : ~Deleting(x, d)
                     /\ \A w \in CacheOps : ~Making(w, d) /\ ~Using(w, d)
    BY <1>3 DEF InUse, BeingDeleted, Deleting, Making, Using, OpRows
  <2> HIDE DEF d, keep
  <2>7. /\ \A x \in CacheApis, e \in Vnfds : Deleting(x, e)' <=> Deleting(x, e) \/ (x = a /\ e = d)
        /\ \A w \in CacheOps, e \in Vnfds : (Making(w, e)' <=> Making(w, e)) /\ (Using(w, e)' <=> Using(w, e))
    BY <1>1, <2>2, <2>3 DEF Deleting, Making, Using
  <2>8. ASSUME NEW e \in Vnfds \ swept' PROVE DirOk(e)'
    <3>1. CASE e # d
      BY <2>1, <2>4, <2>7, <2>8, <3>1 DEF DirOk
    <3>2. CASE e = d
      BY <2>1, <2>4, <2>6, <2>7, <2>8, <3>2 DEF DirOk
    <3> QED BY <3>1, <3>2
  <2>9. ASSUME NEW e \in Vnfds \ (swept' \cup damaged') PROVE Attended(e)'
    BY <1>1, <2>1, <2>4, <2>7, <2>9 DEF Attended
  <2> QED BY <2>5, <2>8, <2>9
<1> QED BY <1>2, <1>3

\* The deletion ends: nobody else has a hand in the directory.
LEMMA DeleteEndStep ==
    ASSUME CacheInv, NEW a \in CacheApis, _delete_csar_dir(a)
    PROVE  CacheInv'
<1> USE DEF CacheInv
<1> DEFINE d == cacheApi[a].vnfd
<1>1. /\ d \in Vnfds /\ Deleting(a, d)
      /\ csar_dir' = [csar_dir EXCEPT ![d] = "none"] /\ damaged' = damaged \ {d}
      /\ cacheApi' = [cacheApi EXCEPT ![a] = NoStep]
      /\ UNCHANGED <<vnfdId, cacheOp, swept>>
  BY CacheCalls DEF _delete_csar_dir, Deleting
<1>2. /\ cacheApi' \in [CacheApis -> {NoStep} \cup ApiCall]
      /\ cacheApi'[a] = NoStep
      /\ \A x \in CacheApis : x # a => cacheApi'[x] = cacheApi[x]
  BY <1>1, ApiMoves
<1>3. \A e \in Vnfds : csar_dir'[e] = IF e = d THEN "none" ELSE csar_dir[e]
  BY <1>1 DEF CacheTypes
<1>4. CacheTypes' /\ OpRows'
  BY <1>1, <1>2 DEF CacheTypes, OpRows
<1> HIDE DEF d
<1>5. /\ \A x \in CacheApis, e \in Vnfds : Deleting(x, e)' <=> Deleting(x, e) /\ x # a
      /\ \A w \in CacheOps, e \in Vnfds : (Making(w, e)' <=> Making(w, e)) /\ (Using(w, e)' <=> Using(w, e))
  BY <1>1, <1>2 DEF Deleting, Making, Using, NoStep
<1>6. \A x : Deleting(a, x) => x = d
  BY DEF Deleting, d
<1>7. ASSUME NEW e \in Vnfds \ swept' PROVE DirOk(e)'
  <2>1. DirOk(e)
    BY <1>1, <1>7
  <2>2. CASE e = d
    BY <1>1, <1>3, <1>5, <2>1, <2>2 DEF DirOk
  <2>3. CASE e # d
    BY <1>3, <1>5, <2>1, <2>3 DEF DirOk
  <2> QED BY <2>2, <2>3
<1>8. ASSUME NEW e \in Vnfds \ (swept' \cup damaged') PROVE Attended(e)'
  BY <1>1, <1>3, <1>5, <1>6, <1>8 DEF Attended
<1> QED BY <1>4, <1>7, <1>8

\* An operation makes the cache, reads it, uses it and ends.
LEMMA OpSteps ==
    ASSUME CacheInv, NEW w \in CacheOps,
           \/ \E i \in CacheInsts, d \in Vnfds : start_op(w, i, d)
           \/ get_vnfd(w) \/ _make_csar_cache(w) \/ read_op(w) \/ end_op(w)
    PROVE  CacheInv'
<1> USE DEF CacheInv
<1>1. ASSUME NEW i \in CacheInsts, NEW d \in Vnfds, start_op(w, i, d) PROVE CacheInv'
  <2> DEFINE c == [pc |-> "get", inst |-> i, vnfd |-> d]
  <2>1. c \in OpCall
    BY DEF OpCall
  <2>2. /\ cacheOp' = [cacheOp EXCEPT ![w] = c] /\ i \in DOMAIN vnfdId /\ cacheOp[w].pc = "idle"
        /\ UNCHANGED <<csar_dir, vnfdId, cacheApi, damaged, swept>>
    BY <1>1 DEF start_op
  <2>3. /\ cacheOp' \in [CacheOps -> {NoStep} \cup OpCall] /\ cacheOp'[w] = c
        /\ \A x \in CacheOps : x # w => cacheOp'[x] = cacheOp[x]
    BY <2>1, <2>2, OpMoves
  <2>4. CacheTypes' /\ OpRows'
    BY <2>2, <2>3 DEF CacheTypes, OpRows
  <2>5. \A x \in CacheOps, e \in Vnfds : (Making(x, e)' <=> Making(x, e)) /\ (Using(x, e)' <=> Using(x, e))
    BY <2>2, <2>3 DEF Making, Using
  <2>6. \A x \in CacheApis, e \in Vnfds : Deleting(x, e)' <=> Deleting(x, e)
    BY <2>2 DEF Deleting
  <2> QED BY <2>2, <2>4, <2>5, <2>6 DEF DirOk, Attended
<1>2. CASE get_vnfd(w) \/ _make_csar_cache(w) \/ read_op(w) \/ end_op(w)
  <2>1. PICK d \in Vnfds :
           /\ d = cacheOp[w].vnfd /\ cacheOp[w].pc # "idle" /\ cacheOp[w] \in OpCall
           /\ cacheOp[w].inst \in DOMAIN vnfdId
    BY <1>2, CacheCalls DEF get_vnfd, _make_csar_cache, read_op, end_op, OpRows
  <2>2. PICK c \in {NoStep} \cup OpCall :
           /\ cacheOp' = [cacheOp EXCEPT ![w] = c]
           /\ c = NoStep \/ (c.inst = cacheOp[w].inst /\ c.vnfd = d)
           /\ \/ cacheOp[w].pc = "get" /\ csar_dir[d] = "none" /\ c.pc = "make"
                 /\ csar_dir' = [csar_dir EXCEPT ![d] = "partial"]
              \/ cacheOp[w].pc = "get" /\ c.pc = "read" /\ UNCHANGED csar_dir
              \/ cacheOp[w].pc = "make" /\ c.pc = "read" /\ csar_dir' = [csar_dir EXCEPT ![d] = "whole"]
              \/ cacheOp[w].pc = "make" /\ c.pc = "idle" /\ csar_dir' = [csar_dir EXCEPT ![d] = "none"]
              \/ cacheOp[w].pc = "read" /\ c.pc = "use" /\ csar_dir[d] = "whole" /\ UNCHANGED csar_dir
              \/ cacheOp[w].pc \in {"read", "use"} /\ c.pc = "idle" /\ UNCHANGED csar_dir
    <3>1. \A p \in {"get", "make", "read", "use"} :
             /\ [cacheOp[w] EXCEPT !.pc = p] \in OpCall
             /\ [cacheOp[w] EXCEPT !.pc = p].pc = p
             /\ [cacheOp[w] EXCEPT !.pc = p].inst = cacheOp[w].inst
             /\ [cacheOp[w] EXCEPT !.pc = p].vnfd = d
      BY <2>1 DEF OpCall
    <3>2. NoStep.pc = "idle"
      BY DEF NoStep
    <3>3. CASE get_vnfd(w)
      <4>1. CASE csar_dir[d] = "none"
        <5>1. /\ cacheOp[w].pc = "get" /\ cacheOp' = [cacheOp EXCEPT ![w] = [cacheOp[w] EXCEPT !.pc = "make"]]
              /\ csar_dir' = [csar_dir EXCEPT ![d] = "partial"]
          BY <2>1, <3>3, <4>1 DEF get_vnfd
        <5> QED BY <3>1, <4>1, <5>1
      <4>2. CASE csar_dir[d] # "none"
        <5>1. /\ cacheOp[w].pc = "get" /\ cacheOp' = [cacheOp EXCEPT ![w] = [cacheOp[w] EXCEPT !.pc = "read"]]
              /\ csar_dir' = [csar_dir EXCEPT ![d] = csar_dir[d]]
          BY <2>1, <3>3, <4>2 DEF get_vnfd
        <5>2. UNCHANGED csar_dir
          BY <2>1, <5>1 DEF CacheTypes
        <5> QED BY <3>1, <5>1, <5>2
      <4> QED BY <4>1, <4>2
    <3>4. CASE _make_csar_cache(w)
      <4>1. /\ cacheOp[w].pc = "make"
            /\ \/ /\ cacheOp' = [cacheOp EXCEPT ![w] = [cacheOp[w] EXCEPT !.pc = "read"]]
                  /\ csar_dir' = [csar_dir EXCEPT ![d] = "whole"]
               \/ /\ cacheOp' = [cacheOp EXCEPT ![w] = NoStep]
                  /\ csar_dir' = [csar_dir EXCEPT ![d] = "none"]
        BY <2>1, <3>4 DEF _make_csar_cache
      <4> QED BY <3>1, <3>2, <4>1
    <3>5. CASE read_op(w)
      <4>1. /\ cacheOp[w].pc = "read" /\ UNCHANGED csar_dir
            /\ \/ csar_dir[d] = "whole" /\ cacheOp' = [cacheOp EXCEPT ![w] = [cacheOp[w] EXCEPT !.pc = "use"]]
               \/ cacheOp' = [cacheOp EXCEPT ![w] = NoStep]
        BY <2>1, <3>5 DEF read_op
      <4> QED BY <3>1, <3>2, <4>1
    <3>6. CASE end_op(w)
      BY <2>1, <3>2, <3>6 DEF end_op
    <3> QED BY <1>2, <3>3, <3>4, <3>5, <3>6
  <2>3. /\ cacheOp' \in [CacheOps -> {NoStep} \cup OpCall] /\ cacheOp'[w] = c
        /\ \A x \in CacheOps : x # w => cacheOp'[x] = cacheOp[x]
    BY <2>2, OpMoves
  <2>4. UNCHANGED <<cacheApi, damaged, swept>>
    BY <1>2 DEF get_vnfd, _make_csar_cache, read_op, end_op
  <2>5. /\ vnfdId' \in [DOMAIN vnfdId' -> Vnfds] /\ DOMAIN vnfdId' = DOMAIN vnfdId
    <3>1. CASE end_op(w)
      <4>1. PICK e \in {vnfdId[cacheOp[w].inst], d} : vnfdId' = [vnfdId EXCEPT ![cacheOp[w].inst] = e]
        BY <2>1, <3>1 DEF end_op
      <4>2. e \in Vnfds
        BY <2>1 DEF CacheTypes
      <4> QED BY <4>1, <4>2 DEF CacheTypes
    <3>2. CASE UNCHANGED vnfdId
      BY <3>2 DEF CacheTypes
    <3> QED BY <1>2, <3>1, <3>2 DEF get_vnfd, _make_csar_cache, read_op
  <2>6. csar_dir' \in [Vnfds -> {"none", "partial", "whole"}] /\ \A e \in Vnfds : e # d => csar_dir'[e] = csar_dir[e]
    BY <2>1, <2>2 DEF CacheTypes
  <2>7. CacheTypes' /\ OpRows'
    BY <2>1, <2>2, <2>3, <2>4, <2>5, <2>6 DEF CacheTypes, OpRows, NoStep
  <2>8. \A x \in CacheApis, e \in Vnfds : Deleting(x, e)' <=> Deleting(x, e)
    BY <2>4 DEF Deleting
  <2>9. ASSUME NEW e \in Vnfds, e # d, NEW x \in CacheOps
        PROVE  (Making(x, e)' <=> Making(x, e)) /\ (Using(x, e)' <=> Using(x, e))
    BY <2>1, <2>2, <2>3, <2>9 DEF Making, Using, NoStep
  <2>10. /\ \A x \in CacheOps : x # w => (Making(x, d)' <=> Making(x, d)) /\ (Using(x, d)' <=> Using(x, d))
         /\ Making(w, d)' <=> c.pc = "make"
         /\ Using(w, d)' <=> c.pc = "use"
         /\ Making(w, d) <=> cacheOp[w].pc = "make"
         /\ Using(w, d) <=> cacheOp[w].pc = "use"
    BY <2>1, <2>2, <2>3 DEF Making, Using, NoStep
  <2>11. \/ cacheOp[w].pc = "get" /\ csar_dir[d] = "none" /\ c.pc = "make" /\ csar_dir'[d] = "partial"
         \/ cacheOp[w].pc = "get" /\ c.pc = "read" /\ csar_dir'[d] = csar_dir[d]
         \/ cacheOp[w].pc = "make" /\ c.pc = "read" /\ csar_dir'[d] = "whole"
         \/ cacheOp[w].pc = "make" /\ c.pc = "idle" /\ csar_dir'[d] = "none"
         \/ cacheOp[w].pc = "read" /\ c.pc = "use" /\ csar_dir[d] = "whole" /\ csar_dir'[d] = csar_dir[d]
         \/ cacheOp[w].pc \in {"read", "use"} /\ c.pc = "idle" /\ csar_dir'[d] = csar_dir[d]
    BY <2>1, <2>2 DEF CacheTypes
  <2>12. ASSUME NEW e \in Vnfds \ swept' PROVE DirOk(e)'
    <3>1. DirOk(e)
      BY <2>4, <2>12
    <3>2. CASE e = d
      BY <2>8, <2>10, <2>11, <3>1, <3>2 DEF DirOk
    <3>3. CASE e # d
      BY <2>6, <2>8, <2>9, <3>1, <3>3 DEF DirOk
    <3> QED BY <3>2, <3>3
  <2>13. ASSUME NEW e \in Vnfds \ (swept' \cup damaged') PROVE Attended(e)'
    <3>1. Attended(e)
      BY <2>4, <2>13
    <3>2. CASE e = d
      BY <2>8, <2>10, <2>11, <3>1, <3>2 DEF Attended
    <3>3. CASE e # d
      BY <2>6, <2>8, <2>9, <3>1, <3>3 DEF Attended
    <3> QED BY <3>2, <3>3
  <2> QED BY <2>7, <2>12, <2>13
<1> QED BY <1>1, <1>2

\* The conductor dies: what it was extracting counts as damaged.
LEMMA CrashStep ==
    ASSUME CacheInv, crash_op
    PROVE  CacheInv'
<1> USE DEF CacheInv
<1>1. /\ cacheOp' = [w \in CacheOps |-> NoStep] /\ UNCHANGED <<csar_dir, vnfdId, cacheApi, swept>>
      /\ damaged' = damaged \cup {d \in Vnfds : \E w \in CacheOps : Making(w, d)}
  BY DEF crash_op, Making
<1>2. \A w \in CacheOps : cacheOp'[w].pc = "idle"
  BY <1>1 DEF NoStep
<1>3. CacheTypes' /\ OpRows'
  BY <1>1, <1>2 DEF CacheTypes, OpRows
<1>4. /\ \A w \in CacheOps, d \in Vnfds : ~Making(w, d)' /\ ~Using(w, d)'
      /\ \A a \in CacheApis, d \in Vnfds : Deleting(a, d)' <=> Deleting(a, d)
  BY <1>1, <1>2 DEF Making, Using, Deleting
<1>5. \A d \in (Vnfds \ swept)' : DirOk(d)'
  BY <1>1, <1>4 DEF DirOk
<1>6. \A d \in (Vnfds \ (swept \cup damaged))' : Attended(d)'
  BY <1>1, <1>4 DEF Attended
<1> QED BY <1>3, <1>5, <1>6

\* The invariant of the cache holds at first and is kept by every step.
THEOREM CacheInductive == CsarCacheSpec => []CacheInv
<1>1. CsarCacheInit => CacheInv
  <2> SUFFICES ASSUME CsarCacheInit PROVE CacheInv
    OBVIOUS
  <2>1. /\ \A a \in CacheApis : cacheApi[a].pc = "idle"
        /\ \A w \in CacheOps : cacheOp[w].pc = "idle"
    BY DEF CsarCacheInit, NoStep
  <2>2. DOMAIN vnfdId = {} /\ vnfdId \in [DOMAIN vnfdId -> Vnfds]
    BY DEF CsarCacheInit
  <2>3. CacheTypes /\ OpRows
    BY <2>1, <2>2 DEF CsarCacheInit, CacheTypes, OpRows
  <2>4. \A d \in Vnfds : DirOk(d) /\ Attended(d)
    BY <2>1 DEF CsarCacheInit, DirOk, Attended, Making, Using, Deleting
  <2> QED BY <2>3, <2>4 DEF CacheInv
<1>2. CacheInv /\ [CsarCacheNext]_cacheVars => CacheInv'
  <2> SUFFICES ASSUME CacheInv, [CsarCacheNext]_cacheVars PROVE CacheInv'
    OBVIOUS
  <2>1. CASE UNCHANGED cacheVars
    BY <2>1 DEF cacheVars, CacheInv, CacheTypes, OpRows, DirOk, Attended, Making, Using, Deleting
  <2> QED BY <2>1, RequestSteps, DeleteStartStep, DeleteEndStep, OpSteps, CrashStep DEF CsarCacheNext
<1> QED BY <1>1, <1>2, PTL DEF CsarCacheSpec

\* The package of an operation on an instance of its VNFD is complete to the
\* end: the row of the instance keeps _delete_csar_cache from deleting it.
THEOREM PackageStays == CsarCacheSpec => []OwnPackageStays
<1>1. CacheInv => OwnPackageStays
  BY CacheCalls DEF CacheInv, DirOk, Using, OwnPackageStays
<1> QED BY <1>1, CacheInductive, PTL

\* An incomplete directory is being extracted or deleted, or was left by a
\* crash or deleted in use: no error path of get_vnfd leaves one.
THEOREM NoPartialLeft == CsarCacheSpec => []NoPartialCache
<1>1. CacheInv => NoPartialCache
  BY DEF CacheInv, Attended, Making, Deleting, NoPartialCache, BeingDeleted
<1> QED BY <1>1, CacheInductive, PTL

----------------------------------------------------------------------------
(* The package service *)

\* The fields of rows, casts, requests and conductors.
Onboarding == {"CREATED", "UPLOADING", "PROCESSING", "ONBOARDED"}
Number == 0..MaxUploads
FanCast == [m : {"load", "delete"}, p : Pkgs, n : Number]
PkgCast == [m : {"content", "uri", "delete"}, p : Pkgs, n : Number]
PkgInstance == [id : PkgInsts, stack : Stacks, p : Pkgs]
UploadReq == [pc : {"mark", "store", "stored"}, p : Pkgs, from : {"content", "uri"}, n : Number]
PatchReq == [pc : {"patch"}, p : Pkgs, operational : {"ENABLED", "DISABLED"}]
DestroyReq == [pc : {"destroy"}, p : Pkgs, seen : Onboarding]
ReadReq == [pc : {"insert", "usage"}, p : Pkgs, inst : PkgInstance, create : BOOLEAN]
SaveReq == [pc : {"saveUsage"}, p : Pkgs, inst : PkgInstance, create : BOOLEAN, inUse : BOOLEAN]
PkgRequest == {NoReq} \cup UploadReq \cup PatchReq \cup DestroyReq \cup ReadReq \cup SaveReq

CondSteps == {"idle", "load", "count", "check", "onboard", "save", "revert"}
CondRow == [pc : CondSteps, p : Pkgs, n : Number]

\* Rows, casts, requests and conductors have the fields the code reads.
PkgTypes ==
    /\ pkg \in [Pkgs -> PkgRow]
    /\ vnfdRow \subseteq Pkgs /\ flavours \subseteq Pkgs /\ glance \subseteq Pkgs
    /\ extracted \subseteq PkgConductors \X Pkgs
    /\ pkgInst \subseteq PkgInstance
    /\ pkgReq \in [PkgReqs -> PkgRequest]
    /\ pkgCond \in [PkgConductors -> CondRow]
    /\ pkgCasts \subseteq PkgCast
    /\ fanout \in [PkgConductors -> Seq(FanCast)]
    /\ uploads \in Number
    /\ pkgSplit \subseteq Pkgs /\ pkgCut \subseteq Pkgs /\ usageRaced \subseteq Pkgs

\* The casts to all conductors that conductor k has not taken yet.
Entries(k) == {fanout[k][i] : i \in DOMAIN fanout[k]}

\* Where conductor k is with package p.
CondIn(k, p, steps) == pkgCond[k].p = p /\ pkgCond[k].pc \in steps
Active(k, p) == pkgCond[k].p = p /\ pkgCond[k].pc # "idle"
\* What the queues hold for p: casts to load it, and nothing else when OnlyLoads;
\* CountedLoads: each belongs to an upload that some conductor has extracted.
LoadEntry(k, p) == \E e \in Entries(k) : e.p = p /\ e.m = "load"
NoConductor(p) == \A k \in PkgConductors : ~Active(k, p) /\ \A e \in Entries(k) : e.p # p
OnlyLoads(p) == \A k \in PkgConductors : \A e \in Entries(k) : e.p = p => e.m = "load"
CountedLoads(p) == \A k \in PkgConductors : \A e \in Entries(k) : e.p = p /\ e.m = "load" => e.n \in counted
\* Conductor k is alone at work on p; Busy: those the row counts as downloading;
\* Loading: upload n of p is in a queue or being extracted.
Solo(k, p) == \A j \in PkgConductors : Active(j, p) => j = k
Busy(p) == {k \in PkgConductors : CondIn(k, p, {"load", "count", "revert"})}
Loading(p, n) ==
    \/ \E k \in PkgConductors : CondIn(k, p, {"load", "count"}) /\ pkgCond[k].n = n
    \/ \E k \in PkgConductors : \E e \in Entries(k) : e.p = p /\ e.m = "load" /\ e.n = n

\* An upload of p before its extraction: in a request or in a cast to one conductor.
UpReq(u, p) == pkgReq[u].pc \in {"store", "stored"} /\ pkgReq[u].p = p
UpCast(c, p) == c \in pkgCasts /\ c.m \in {"content", "uri"} /\ c.p = p
\* The CSAR of p was stored by an upload that is not being processed yet.
Stored(p) ==
    \/ \E u \in PkgReqs : pkgReq[u].pc = "stored" /\ pkgReq[u].p = p
    \/ \E c \in pkgCasts : c.m = "content" /\ c.p = p

\* At most one upload of p is under way before its extraction, and the row says so.
OneUpload(p) ==
    /\ \A u, v \in PkgReqs : UpReq(u, p) /\ UpReq(v, p) => u = v
    /\ \A c, d \in PkgCast : UpCast(c, p) /\ UpCast(d, p) => c = d
    /\ \A u \in PkgReqs, c \in PkgCast : ~(UpReq(u, p) /\ UpCast(c, p))
    /\ \A u \in PkgReqs : UpReq(u, p) => pkg[p].onboarding = "UPLOADING"
    /\ \A c \in pkgCasts : c.p = p => c.m # "delete" /\ pkg[p].onboarding = "UPLOADING"
    /\ \A u \in PkgReqs : pkgReq[u].pc = "mark" /\ pkgReq[u].p = p => pkg[p].onboarding = "CREATED"

\* CREATED: nothing of an earlier attempt is left, and nobody is about to onboard.
CreatedInv(p) ==
    /\ p \notin glance /\ p \notin vnfdRow /\ p \notin flavours
    /\ \A k \in PkgConductors : ~CondIn(k, p, {"onboard", "save"})

\* UPLOADING: no conductor has heard of the package.
UploadingInv(p) ==
    /\ NoConductor(p)
    /\ p \notin vnfdRow /\ p \notin flavours
    /\ p \in glance <=> Stored(p)

\* PROCESSING, while nobody has found 0: downloading counts the conductors at work,
\* and one at most is between its decrement and its check.
Racing(p) ==
    /\ pkg[p].downloading = Cardinality(Busy(p))
    /\ \A k \in PkgConductors : ~CondIn(k, p, {"onboard", "save"})
    /\ \A k \in PkgConductors : CondIn(k, p, {"check"}) =>
          CountedLoads(p) /\ \A j \in PkgConductors : CondIn(j, p, {"check"}) => j = k

\* PROCESSING, after one conductor has found 0: all the others are through.
Won(p) ==
    \E k \in PkgConductors : CondIn(k, p, {"onboard", "save", "revert"}) /\ Solo(k, p) /\ CountedLoads(p)

\* PROCESSING: every conductor has the package, or will have it, or is reverting it.
ProcessingInv(p) ==
    /\ p \in glance
    /\ OnlyLoads(p)
    /\ \A m, n \in Number : Loading(p, m) /\ Loading(p, n) => m = n
    /\ \A k \in PkgConductors : LoadEntry(k, p) \/ CondIn(k, p, {"load", "revert"}) \/ <<k, p>> \in extracted
    /\ \E k \in PkgConductors : LoadEntry(k, p) \/ Active(k, p)
    /\ p \in vnfdRow \/ p \in flavours => \E k \in PkgConductors : CondIn(k, p, {"save"})
    /\ \A k \in PkgConductors : CondIn(k, p, {"save"}) => p \in vnfdRow /\ p \in flavours
    /\ Racing(p) \/ Won(p)

\* ONBOARDED: the tables are complete and no conductor is at work.
OnboardedInv(p) ==
    /\ p \in glance /\ p \in vnfdRow /\ p \in flavours
    /\ \A k \in PkgConductors : ~Active(k, p)
    /\ OnlyLoads(p) /\ CountedLoads(p)
    /\ \A k \in PkgConductors : LoadEntry(k, p) \/ <<k, p>> \in extracted

\* A package that is not deleted, by its onboarding state.
LiveInv(p) ==
    /\ OneUpload(p)
    /\ pkg[p].onboarding = "CREATED" => CreatedInv(p)
    /\ pkg[p].onboarding = "UPLOADING" => UploadingInv(p)
    /\ pkg[p].onboarding = "PROCESSING" => ProcessingInv(p)
    /\ pkg[p].onboarding = "ONBOARDED" => OnboardedInv(p)

\* A package that was never created.
NoneInv(p) ==
    /\ \A u \in PkgReqs : pkgReq[u].pc # "idle" => pkgReq[u].p # p
    /\ \A c \in pkgCasts : c.p # p
    /\ NoConductor(p)
    /\ p \notin glance /\ p \notin vnfdRow /\ p \notin flavours
    /\ \A i \in pkgInst : i.p # p

\* A deleted package keeps no row in vnf_package_vnfd once it was ONBOARDED ...
GoneRow(p) ==
    p \in vnfdRow \/ (\E k \in PkgConductors : CondIn(k, p, {"onboard", "save"}))
        => pkg[p].onboarding # "ONBOARDED"

\* ... and, unless it was deleted in the middle of an upload, nothing at all that no
\* cast or conductor is going to clean up.
GoneInv(p) ==
    /\ \A u \in PkgReqs : pkgReq[u].pc \in {"mark", "store", "stored"} => pkgReq[u].p # p
    /\ \A k \in PkgConductors : ~CondIn(k, p, {"onboard", "save"})
    /\ p \notin vnfdRow
    /\ p \in glance =>
          \/ \E c \in pkgCasts : c.p = p /\ c.m \in {"content", "delete"}
          \/ \E k \in PkgConductors : LoadEntry(k, p) \/ Active(k, p)

\* What the state has to do with one package.
PkgOk(p) ==
    /\ pkg[p].state = "none" => NoneInv(p)
    /\ p \notin pkgSplit /\ Live(p) => LiveInv(p)
    /\ p \notin pkgSplit /\ pkg[p].state = "deleted" => GoneRow(p)
    /\ p \notin pkgSplit /\ p \notin pkgCut /\ pkg[p].state = "deleted" => GoneInv(p)

\* The table vnf_package_vnfd admits one row for the VNFD.
OneRow == \A p, q \in vnfdRow : p = q

\* A request that creates an instance counts it for the instance's package.
OwnPackage(r) ==
    /\ r.pc = "insert" => r.inst.p = r.p /\ r.create
    /\ r.pc \in {"usage", "saveUsage"} /\ r.create /\ r.inst.stack = "v1" => r.inst.p = r.p

InsertsOwn == \A u \in PkgReqs : OwnPackage(pkgReq[u])

\* The inductive invariant of the packages.
PkgInv == PkgTypes /\ OneRow /\ InsertsOwn /\ \A p \in Pkgs : PkgOk(p)

\* Requests on instances of p, and instances of p.
InstReqOn(u, p) == pkgReq[u].pc \in InstReqs /\ pkgReq[u].p = p
HasInst(p) == \E i \in pkgInst : i.p = p

\* The only request on an instance of p, and what it knows about p's instances.
UsageOf(u, p) ==
    /\ pkg[p].onboarding = "ONBOARDED"
    /\ \A v \in PkgReqs : pkgReq[v].pc \in InstReqs => v = u
    /\ \A i \in pkgInst : i.p = p /\ i.stack = pkgReq[u].inst.stack
    /\ pkgReq[u].inst.p = p
    /\ pkgReq[u].pc = "insert" => pkgReq[u].create /\ (HasInst(p) <=> pkg[p].usage = "IN_USE")
    /\ pkgReq[u].pc = "usage" => IF pkgReq[u].create THEN pkgReq[u].inst \in pkgInst
                                 ELSE HasInst(p) => pkg[p].usage = "IN_USE"
    /\ pkgReq[u].pc = "saveUsage" => (pkgReq[u].inUse <=> HasInst(p))

\* The usage state of p and what requests are about to write to it.
UsageInv(p) ==
    /\ ~Live(p) => ~HasInst(p) /\ \A u \in PkgReqs : ~InstReqOn(u, p)
    /\ \A u \in PkgReqs : pkgReq[u].pc = "destroy" /\ pkgReq[u].p = p =>
          ~HasInst(p) /\ \A v \in PkgReqs : ~InstReqOn(v, p)
    /\ HasInst(p) => pkg[p].onboarding = "ONBOARDED"
    /\ Live(p) /\ (\A u \in PkgReqs : ~InstReqOn(u, p)) => (HasInst(p) <=> pkg[p].usage = "IN_USE")
    /\ \A u \in PkgReqs : InstReqOn(u, p) => UsageOf(u, p)

\* The inductive invariant of the usage state, on top of PkgInv.
UsagesInv == \A p \in Pkgs \ (usageRaced \cup pkgSplit) : UsageInv(p)

----------------------------------------------------------------------------
\* The steps of an upload in the API server.
UploadSteps == {"mark", "store", "stored"}

\* A step does not touch what package p has in the store, the tables and the
\* queues, at the conductors and in the requests.
Same(p) ==
    /\ pkg'[p].state = pkg[p].state
    /\ pkg'[p].onboarding = pkg[p].onboarding
    /\ pkg'[p].downloading = pkg[p].downloading
    /\ p \in glance' <=> p \in glance
    /\ p \in vnfdRow' <=> p \in vnfdRow
    /\ p \in flavours' <=> p \in flavours
    /\ Live(p) => \A k \in PkgConductors : <<k, p>> \in extracted' <=> <<k, p>> \in extracted
    /\ \A u \in PkgReqs, s \in UploadSteps :
          (pkgReq'[u].pc = s /\ pkgReq'[u].p = p) <=> (pkgReq[u].pc = s /\ pkgReq[u].p = p)
    /\ pkg[p].state = "none" =>
          \A u \in PkgReqs : pkgReq'[u].pc # "idle" /\ pkgReq'[u].p = p =>
              pkgReq[u].pc # "idle" /\ pkgReq[u].p = p
    /\ pkg[p].state = "none" => \A i \in pkgInst' : i.p = p => i \in pkgInst
    /\ \A c \in PkgCast : c.p = p => (c \in pkgCasts' <=> c \in pkgCasts)
    /\ \A k \in PkgConductors : Active(k, p)' <=> Active(k, p)
    /\ \A k \in PkgConductors : Active(k, p) => pkgCond'[k] = pkgCond[k]
    /\ \A k \in PkgConductors : \A e \in FanCast : e.p = p => (e \in Entries(k)' <=> e \in Entries(k))
    /\ counted \subseteq counted'
    /\ pkgSplit \subseteq pkgSplit' /\ pkgCut \subseteq pkgCut'

\* Casts to all conductors have the fields of FanCast.
LEMMA EntryTypes ==
    ASSUME PkgTypes
    PROVE  \A k \in PkgConductors : Entries(k) \subseteq FanCast
BY DEF PkgTypes, Entries

\* A step that leaves p alone leaves alone what conductors and queues know of it ...
LEMMA SameConductors ==
    ASSUME PkgTypes, PkgTypes', NEW p \in Pkgs, Same(p)
    PROVE  /\ \A k \in PkgConductors : \A steps : "idle" \notin steps =>
                 (CondIn(k, p, steps)' <=> CondIn(k, p, steps))
           /\ \A k \in PkgConductors : LoadEntry(k, p)' <=> LoadEntry(k, p)
           /\ NoConductor(p)' <=> NoConductor(p)
           /\ OnlyLoads(p)' <=> OnlyLoads(p)
           /\ CountedLoads(p) => CountedLoads(p)'
           /\ \A k \in PkgConductors : Solo(k, p)' <=> Solo(k, p)
           /\ Busy(p)' = Busy(p)
           /\ \A n \in Number : Loading(p, n)' <=> Loading(p, n)
PROOF
<1>1. /\ \A k \in PkgConductors : Entries(k) \subseteq FanCast
      /\ \A k \in PkgConductors : Entries(k)' \subseteq FanCast
  <2>1. \A k \in PkgConductors : Entries(k) \subseteq FanCast  BY EntryTypes
  <2>2. \A k \in PkgConductors : Entries(k)' \subseteq FanCast  BY DEF PkgTypes, Entries
  <2>3. QED  BY <2>1, <2>2
<1>2. \A k \in PkgConductors : \A e \in FanCast : e.p = p => (e \in Entries(k)' <=> e \in Entries(k))
  BY DEF Same
<1>3. \A k \in PkgConductors : Active(k, p)' <=> Active(k, p)  BY DEF Same
<1>4. \A k \in PkgConductors : Active(k, p) => pkgCond'[k] = pkgCond[k]  BY DEF Same
<1>5. \A k \in PkgConductors : \A steps : "idle" \notin steps => (CondIn(k, p, steps)' <=> CondIn(k, p, steps))
  BY <1>3, <1>4 DEF Active, CondIn
<1>6. \A k \in PkgConductors : LoadEntry(k, p)' <=> LoadEntry(k, p)  BY <1>1, <1>2 DEF LoadEntry
<1>7. NoConductor(p)' <=> NoConductor(p)  BY <1>1, <1>2, <1>3 DEF NoConductor
<1>8. OnlyLoads(p)' <=> OnlyLoads(p)  BY <1>1, <1>2 DEF OnlyLoads
<1>9. counted \subseteq counted'  BY DEF Same
<1>10. CountedLoads(p) => CountedLoads(p)'  BY <1>1, <1>2, <1>9 DEF CountedLoads
<1>11. \A k \in PkgConductors : Solo(k, p)' <=> Solo(k, p)  BY <1>3 DEF Solo
<1>12. Busy(p)' = Busy(p)
  <2>1. \A k \in PkgConductors : CondIn(k, p, {"load", "count", "revert"})' <=> CondIn(k, p, {"load", "count", "revert"})
    BY <1>5
  <2>2. QED  BY <2>1 DEF Busy
<1>13. \A n \in Number : Loading(p, n)' <=> Loading(p, n)
  <2>1. \A k \in PkgConductors : CondIn(k, p, {"load", "count"})' <=> CondIn(k, p, {"load", "count"})
    BY <1>5
  <2>2. \A k \in PkgConductors : CondIn(k, p, {"load", "count"}) => pkgCond'[k] = pkgCond[k]
    BY <1>4 DEF CondIn, Active
  <2>3. QED  BY <1>1, <1>2, <2>1, <2>2 DEF Loading
<1>14. QED  BY <1>5, <1>6, <1>7, <1>8, <1>10, <1>11, <1>12, <1>13

\* ... what requests and casts know of it ...
LEMMA SameRequests ==
    ASSUME PkgTypes, PkgTypes', NEW p \in Pkgs, Same(p)
    PROVE  /\ \A u \in PkgReqs : UpReq(u, p)' <=> UpReq(u, p)
           /\ \A c \in PkgCast : UpCast(c, p)' <=> UpCast(c, p)
           /\ Stored(p)' <=> Stored(p)
           /\ OneUpload(p) => OneUpload(p)'
PROOF
<1>1. \A u \in PkgReqs, s \in UploadSteps :
          (pkgReq'[u].pc = s /\ pkgReq'[u].p = p) <=> (pkgReq[u].pc = s /\ pkgReq[u].p = p)
  BY DEF Same
<1>2. \A c \in PkgCast : c.p = p => (c \in pkgCasts' <=> c \in pkgCasts)  BY DEF Same
<1>3. pkgCasts \subseteq PkgCast /\ pkgCasts' \subseteq PkgCast  BY DEF PkgTypes
<1>4. \A u \in PkgReqs : UpReq(u, p)' <=> UpReq(u, p)  BY <1>1 DEF UpReq, UploadSteps
<1>5. \A c \in PkgCast : UpCast(c, p)' <=> UpCast(c, p)  BY <1>2 DEF UpCast
<1>6. Stored(p)' <=> Stored(p)
  <2>1. \A u \in PkgReqs :
            (pkgReq'[u].pc = "stored" /\ pkgReq'[u].p = p) <=> (pkgReq[u].pc = "stored" /\ pkgReq[u].p = p)
    BY <1>1 DEF UploadSteps
  <2>2. QED  BY <1>2, <1>3, <2>1 DEF Stored
<1>7. pkg'[p].onboarding = pkg[p].onboarding  BY DEF Same
<1>8. \A u \in PkgReqs : pkgReq'[u].pc = "mark" /\ pkgReq'[u].p = p => pkgReq[u].pc = "mark" /\ pkgReq[u].p = p
  BY <1>1 DEF UploadSteps
<1>9. ASSUME OneUpload(p)  PROVE OneUpload(p)'
  <2>1. \A c \in pkgCasts' : c.p = p => c \in pkgCasts  BY <1>2, <1>3
  <2>2. \A c \in pkgCasts' : c.p = p => c.m # "delete" /\ pkg'[p].onboarding = "UPLOADING"
    BY <1>7, <1>9, <2>1 DEF OneUpload
  <2>3. QED  BY <1>4, <1>5, <1>7, <1>8, <1>9, <2>2 DEF OneUpload
<1>10. QED  BY <1>4, <1>5, <1>6, <1>9

\* ... and so the invariant of a live package ...
LEMMA SameLive ==
    ASSUME PkgTypes, PkgTypes', NEW p \in Pkgs, Same(p), Live(p), LiveInv(p)
    PROVE  LiveInv(p)'
PROOF
<1>1. /\ pkg'[p].onboarding = pkg[p].onboarding
      /\ pkg'[p].downloading = pkg[p].downloading
      /\ p \in glance' <=> p \in glance
      /\ p \in vnfdRow' <=> p \in vnfdRow
      /\ p \in flavours' <=> p \in flavours
  BY DEF Same
<1>2. \A k \in PkgConductors : <<k, p>> \in extracted' <=> <<k, p>> \in extracted  BY DEF Same
<1>3. \A k \in PkgConductors : Active(k, p)' <=> Active(k, p)  BY DEF Same
<1>4. \A k \in PkgConductors :
         /\ CondIn(k, p, {"onboard", "save"})' <=> CondIn(k, p, {"onboard", "save"})
         /\ CondIn(k, p, {"check"})' <=> CondIn(k, p, {"check"})
         /\ CondIn(k, p, {"save"})' <=> CondIn(k, p, {"save"})
         /\ CondIn(k, p, {"load", "revert"})' <=> CondIn(k, p, {"load", "revert"})
         /\ CondIn(k, p, {"onboard", "save", "revert"})' <=> CondIn(k, p, {"onboard", "save", "revert"})
  <2>1. \A k \in PkgConductors : \A steps : "idle" \notin steps => (CondIn(k, p, steps)' <=> CondIn(k, p, steps))
    BY SameConductors
  <2>2. QED  BY <2>1
<1>5. /\ \A k \in PkgConductors : LoadEntry(k, p)' <=> LoadEntry(k, p)
      /\ NoConductor(p)' <=> NoConductor(p)
      /\ OnlyLoads(p)' <=> OnlyLoads(p)
      /\ CountedLoads(p) => CountedLoads(p)'
      /\ \A k \in PkgConductors : Solo(k, p)' <=> Solo(k, p)
      /\ Busy(p)' = Busy(p)
      /\ \A n \in Number : Loading(p, n)' <=> Loading(p, n)
  BY SameConductors
<1>6. OneUpload(p)'  BY SameRequests DEF LiveInv
<1>7. CreatedInv(p) => CreatedInv(p)'  BY <1>1, <1>4 DEF CreatedInv
<1>8. UploadingInv(p) => UploadingInv(p)'
  <2>1. Stored(p)' <=> Stored(p)  BY SameRequests
  <2>2. QED  BY <1>1, <1>5, <2>1 DEF UploadingInv
<1>9. Racing(p) => Racing(p)'  BY <1>1, <1>4, <1>5 DEF Racing
<1>10. Won(p) => Won(p)'  BY <1>4, <1>5 DEF Won
<1>11. ProcessingInv(p) => ProcessingInv(p)'
  BY <1>1, <1>2, <1>3, <1>4, <1>5, <1>9, <1>10 DEF ProcessingInv
<1>12. OnboardedInv(p) => OnboardedInv(p)'  BY <1>1, <1>2, <1>3, <1>5 DEF OnboardedInv
<1>13. QED  BY <1>1, <1>6, <1>7, <1>8, <1>11, <1>12 DEF LiveInv

\* ... and of any package.
LEMMA SameOk ==
    ASSUME PkgTypes, PkgTypes', NEW p \in Pkgs, Same(p), PkgOk(p)
    PROVE  PkgOk(p)'
PROOF
<1>1. /\ pkg'[p].state = pkg[p].state /\ pkg'[p].onboarding = pkg[p].onboarding
      /\ p \in glance' <=> p \in glance
      /\ p \in vnfdRow' <=> p \in vnfdRow
      /\ p \in flavours' <=> p \in flavours
      /\ pkgSplit \subseteq pkgSplit' /\ pkgCut \subseteq pkgCut'
      /\ \A k \in PkgConductors : Active(k, p)' <=> Active(k, p)
      /\ \A c \in PkgCast : c.p = p => (c \in pkgCasts' <=> c \in pkgCasts)
  BY DEF Same
<1>2. pkgCasts \subseteq PkgCast /\ pkgCasts' \subseteq PkgCast  BY DEF PkgTypes
<1>3. /\ NoConductor(p)' <=> NoConductor(p)
      /\ \A k \in PkgConductors : LoadEntry(k, p)' <=> LoadEntry(k, p)
      /\ \A k \in PkgConductors : CondIn(k, p, {"onboard", "save"})' <=> CondIn(k, p, {"onboard", "save"})
  <2>1. \A k \in PkgConductors : \A steps : "idle" \notin steps => (CondIn(k, p, steps)' <=> CondIn(k, p, steps))
    BY SameConductors
  <2>2. \A k \in PkgConductors : CondIn(k, p, {"onboard", "save"})' <=> CondIn(k, p, {"onboard", "save"})
    BY <2>1
  <2>3. NoConductor(p)' <=> NoConductor(p) /\ \A k \in PkgConductors : LoadEntry(k, p)' <=> LoadEntry(k, p)
    BY SameConductors
  <2>4. QED  BY SameConductors, <2>2
<1>4. Live(p)' <=> Live(p)  BY <1>1 DEF Live
<1>5. pkg[p].state = "none" /\ NoneInv(p) => NoneInv(p)'
  <2>1. pkg[p].state = "none" =>
          \A u \in PkgReqs : pkgReq'[u].pc # "idle" /\ pkgReq'[u].p = p =>
              pkgReq[u].pc # "idle" /\ pkgReq[u].p = p
    BY DEF Same
  <2>2. pkg[p].state = "none" => \A i \in pkgInst' : i.p = p => i \in pkgInst  BY DEF Same
  <2>3. QED  BY <1>1, <1>2, <1>3, <2>1, <2>2 DEF NoneInv
<1>6. GoneRow(p) => GoneRow(p)'  BY <1>1, <1>3 DEF GoneRow
<1>7. GoneInv(p) => GoneInv(p)'
  <2>1. \A u \in PkgReqs, s \in UploadSteps :
            (pkgReq'[u].pc = s /\ pkgReq'[u].p = p) <=> (pkgReq[u].pc = s /\ pkgReq[u].p = p)
    BY DEF Same
  <2>2. QED  BY <1>1, <1>2, <1>3, <2>1 DEF GoneInv, UploadSteps
<1>8. QED  BY <1>1, <1>4, <1>5, <1>6, <1>7, SameLive DEF PkgOk

\* A step that leaves all packages but q alone has to establish the invariant of q only.
LEMMA OnePackage ==
    ASSUME PkgInv, PkgTypes', OneRow', InsertsOwn', NEW q, PkgOk(q)', \A p \in Pkgs : p # q => Same(p)
    PROVE  PkgInv'
PROOF
<1>1. ASSUME NEW p \in Pkgs, p # q  PROVE PkgOk(p)'
  <2>1. PkgTypes /\ PkgOk(p) /\ Same(p)  BY <1>1 DEF PkgInv
  <2>2. QED  BY <2>1, SameOk
<1>2. QED  BY <1>1 DEF PkgInv

\* A step that leaves all packages alone preserves the invariant.
LEMMA NoPackage ==
    ASSUME PkgInv, PkgTypes', OneRow', InsertsOwn', \A p \in Pkgs : Same(p)
    PROVE  PkgInv'
PROOF
<1>1. ASSUME NEW p \in Pkgs  PROVE PkgOk(p)'
  <2>1. PkgTypes /\ PkgOk(p) /\ Same(p)  BY <1>1 DEF PkgInv
  <2>2. QED  BY <2>1, SameOk
<1>2. QED  BY <1>1 DEF PkgInv

----------------------------------------------------------------------------

\* The table vnf_packages holds rows.
LEMMA PkgRows == ASSUME PkgTypes PROVE pkg \in [Pkgs -> PkgRow]
BY DEF PkgTypes

\* What save() of a row changes: one attribute of one package, the rest stays.
\* First a whole row ...
LEMMA RowMoves ==
    ASSUME PkgTypes, NEW q \in Pkgs, NEW r \in PkgRow, pkg' = [pkg EXCEPT ![q] = r]
    PROVE  /\ pkg' \in [Pkgs -> PkgRow]
           /\ pkg'[q] = r
           /\ \A x \in Pkgs : x # q => pkg'[x] = pkg[x]
BY PkgRows

\* ... the deletion of a row ...
LEMMA StateMoves ==
    ASSUME PkgTypes, NEW q \in Pkgs, pkg' = [pkg EXCEPT ![q].state = "deleted"]
    PROVE  /\ pkg' \in [Pkgs -> PkgRow]
           /\ pkg'[q].state = "deleted"
           /\ pkg'[q].onboarding = pkg[q].onboarding
           /\ pkg'[q].downloading = pkg[q].downloading
           /\ pkg'[q].usage = pkg[q].usage
           /\ \A x \in Pkgs : x # q => pkg'[x] = pkg[x]
PROOF
<1> DEFINE r == [pkg[q] EXCEPT !.state = "deleted"]
<1>1. pkg[q] \in PkgRow  BY PkgRows
<1>2. r \in PkgRow  BY <1>1 DEF PkgRow, Onboarding
<1>3. r.state = "deleted" /\ r.onboarding = pkg[q].onboarding /\ r.downloading = pkg[q].downloading /\ r.usage = pkg[q].usage
  BY <1>1 DEF PkgRow
<1>4. pkg' = [pkg EXCEPT ![q] = r]  BY PkgRows
<1> HIDE DEF r
<1>5. QED  BY <1>2, <1>3, <1>4, RowMoves

\* ... its onboarding state ...
LEMMA OnboardingMoves ==
    ASSUME PkgTypes, NEW q \in Pkgs, NEW s \in Onboarding, pkg' = [pkg EXCEPT ![q].onboarding = s]
    PROVE  /\ pkg' \in [Pkgs -> PkgRow]
           /\ pkg'[q].state = pkg[q].state
           /\ pkg'[q].onboarding = s
           /\ pkg'[q].downloading = pkg[q].downloading
           /\ pkg'[q].usage = pkg[q].usage
           /\ \A x \in Pkgs : x # q => pkg'[x] = pkg[x]
PROOF
<1> DEFINE r == [pkg[q] EXCEPT !.onboarding = s]
<1>1. pkg[q] \in PkgRow  BY PkgRows
<1>2. r \in PkgRow  BY <1>1 DEF PkgRow, Onboarding
<1>3. r.state = pkg[q].state /\ r.onboarding = s /\ r.downloading = pkg[q].downloading /\ r.usage = pkg[q].usage
  BY <1>1 DEF PkgRow
<1>4. pkg' = [pkg EXCEPT ![q] = r]  BY PkgRows
<1> HIDE DEF r
<1>5. QED  BY <1>2, <1>3, <1>4, RowMoves

\* ... the begin of its processing ...
LEMMA ProcessingMoves ==
    ASSUME PkgTypes, NEW q \in Pkgs, pkg' = [pkg EXCEPT ![q].onboarding = "PROCESSING", ![q].downloading = 0]
    PROVE  /\ pkg' \in [Pkgs -> PkgRow]
           /\ pkg'[q].state = pkg[q].state
           /\ pkg'[q].onboarding = "PROCESSING"
           /\ pkg'[q].downloading = 0
           /\ pkg'[q].usage = pkg[q].usage
           /\ \A x \in Pkgs : x # q => pkg'[x] = pkg[x]
PROOF
<1> DEFINE r0 == [pkg[q] EXCEPT !.onboarding = "PROCESSING"]
<1> DEFINE r == [pkg[q] EXCEPT !.onboarding = "PROCESSING", !.downloading = 0]
<1>1. pkg[q] \in PkgRow  BY PkgRows
<1>2. r \in PkgRow
  <2>1. r0 \in PkgRow  BY <1>1 DEF PkgRow
  <2>2. [r0 EXCEPT !.downloading = 0] \in PkgRow
    <3> HIDE DEF r0
    <3>1. QED  BY <2>1 DEF PkgRow
  <2>3. QED  BY <2>2
<1>3. r.state = pkg[q].state /\ r.onboarding = "PROCESSING" /\ r.downloading = 0 /\ r.usage = pkg[q].usage
  BY <1>1 DEF PkgRow
<1>4. pkg' = [pkg EXCEPT ![q] = r]  BY PkgRows
<1> HIDE DEF r
<1>5. QED  BY <1>2, <1>3, <1>4, RowMoves

\* ... the end of its onboarding ...
LEMMA OnboardedMoves ==
    ASSUME PkgTypes, NEW q \in Pkgs, pkg' = [pkg EXCEPT ![q].onboarding = "ONBOARDED", ![q].operational = "ENABLED"]
    PROVE  /\ pkg' \in [Pkgs -> PkgRow]
           /\ pkg'[q].state = pkg[q].state
           /\ pkg'[q].onboarding = "ONBOARDED"
           /\ pkg'[q].downloading = pkg[q].downloading
           /\ pkg'[q].usage = pkg[q].usage
           /\ \A x \in Pkgs : x # q => pkg'[x] = pkg[x]
PROOF
<1> DEFINE r == [pkg[q] EXCEPT !.onboarding = "ONBOARDED", !.operational = "ENABLED"]
<1>1. pkg[q] \in PkgRow  BY PkgRows
<1>2. r \in PkgRow  BY <1>1 DEF PkgRow, Onboarding
<1>3. r.state = pkg[q].state /\ r.onboarding = "ONBOARDED" /\ r.downloading = pkg[q].downloading /\ r.usage = pkg[q].usage
  BY <1>1 DEF PkgRow
<1>4. pkg' = [pkg EXCEPT ![q] = r]  BY PkgRows
<1> HIDE DEF r
<1>5. QED  BY <1>2, <1>3, <1>4, RowMoves

\* ... the count of conductors at work ...
LEMMA DownloadingMoves ==
    ASSUME PkgTypes, NEW q \in Pkgs, NEW d \in {1, -1}, pkg' = [pkg EXCEPT ![q].downloading = @ + d]
    PROVE  /\ pkg' \in [Pkgs -> PkgRow]
           /\ pkg[q].downloading \in Int
           /\ pkg'[q].state = pkg[q].state
           /\ pkg'[q].onboarding = pkg[q].onboarding
           /\ pkg'[q].downloading = pkg[q].downloading + d
           /\ pkg'[q].usage = pkg[q].usage
           /\ \A x \in Pkgs : x # q => pkg'[x] = pkg[x]
PROOF
<1> DEFINE r == [pkg[q] EXCEPT !.downloading = @ + d]
<1>1. pkg[q] \in PkgRow  BY PkgRows
<1>2. r \in PkgRow /\ pkg[q].downloading \in Int  BY <1>1 DEF PkgRow, Onboarding
<1>3. r.state = pkg[q].state /\ r.onboarding = pkg[q].onboarding /\ r.downloading = pkg[q].downloading + d /\ r.usage = pkg[q].usage
  BY <1>1 DEF PkgRow
<1>4. pkg' = [pkg EXCEPT ![q] = r]  BY PkgRows
<1> HIDE DEF r
<1>5. QED  BY <1>2, <1>3, <1>4, RowMoves

\* ... its operational state ...
LEMMA OperationalMoves ==
    ASSUME PkgTypes, NEW q \in Pkgs, NEW s \in {"ENABLED", "DISABLED"}, pkg' = [pkg EXCEPT ![q].operational = s]
    PROVE  /\ pkg' \in [Pkgs -> PkgRow]
           /\ pkg'[q].state = pkg[q].state
           /\ pkg'[q].onboarding = pkg[q].onboarding
           /\ pkg'[q].downloading = pkg[q].downloading
           /\ pkg'[q].usage = pkg[q].usage
           /\ \A x \in Pkgs : x # q => pkg'[x] = pkg[x]
PROOF
<1> DEFINE r == [pkg[q] EXCEPT !.operational = s]
<1>1. pkg[q] \in PkgRow  BY PkgRows
<1>2. r \in PkgRow  BY <1>1 DEF PkgRow, Onboarding
<1>3. r.state = pkg[q].state /\ r.onboarding = pkg[q].onboarding /\ r.downloading = pkg[q].downloading /\ r.usage = pkg[q].usage
  BY <1>1 DEF PkgRow
<1>4. pkg' = [pkg EXCEPT ![q] = r]  BY PkgRows
<1> HIDE DEF r
<1>5. QED  BY <1>2, <1>3, <1>4, RowMoves

\* ... and its usage state.
LEMMA UsageMoves ==
    ASSUME PkgTypes, NEW q \in Pkgs, NEW s \in {"IN_USE", "NOT_IN_USE"}, pkg' = [pkg EXCEPT ![q].usage = s]
    PROVE  /\ pkg' \in [Pkgs -> PkgRow]
           /\ pkg'[q].state = pkg[q].state
           /\ pkg'[q].onboarding = pkg[q].onboarding
           /\ pkg'[q].downloading = pkg[q].downloading
           /\ pkg'[q].usage = s
           /\ \A x \in Pkgs : x # q => pkg'[x] = pkg[x]
PROOF
<1> DEFINE r == [pkg[q] EXCEPT !.usage = s]
<1>1. pkg[q] \in PkgRow  BY PkgRows
<1>2. r \in PkgRow  BY <1>1 DEF PkgRow, Onboarding
<1>3. r.state = pkg[q].state /\ r.onboarding = pkg[q].onboarding /\ r.downloading = pkg[q].downloading /\ r.usage = s
  BY <1>1 DEF PkgRow
<1>4. pkg' = [pkg EXCEPT ![q] = r]  BY PkgRows
<1> HIDE DEF r
<1>5. QED  BY <1>2, <1>3, <1>4, RowMoves

\* A request goes on, the others stay where they are.
LEMMA PkgReqMoves ==
    ASSUME PkgTypes, NEW u \in PkgReqs, NEW r \in PkgRequest, ReqGoes(u, r)
    PROVE  /\ pkgReq' \in [PkgReqs -> PkgRequest]
           /\ pkgReq'[u] = r
           /\ \A v \in PkgReqs : v # u => pkgReq'[v] = pkgReq[v]
BY DEF PkgTypes, ReqGoes

\* A conductor goes on, the others stay where they are.
LEMMA CondMoves ==
    ASSUME PkgTypes, NEW k \in PkgConductors, NEW s \in CondSteps, CondGoes(k, s)
    PROVE  /\ pkgCond' \in [PkgConductors -> CondRow]
           /\ pkgCond[k].p \in Pkgs /\ pkgCond[k].n \in Number
           /\ pkgCond'[k].pc = s /\ pkgCond'[k].p = pkgCond[k].p /\ pkgCond'[k].n = pkgCond[k].n
           /\ \A j \in PkgConductors : j # k => pkgCond'[j] = pkgCond[j]
BY DEF PkgTypes, CondGoes, CondSteps, CondRow, Number

\* A cast to all conductors is one more entry in every queue.
LEMMA FanoutMoves ==
    ASSUME PkgTypes, NEW m \in {"load", "delete"}, NEW q \in Pkgs, NEW n \in Number, Fanout(m, q, n)
    PROVE  /\ fanout' \in [PkgConductors -> Seq(FanCast)]
           /\ \A k \in PkgConductors : Entries(k)' = Entries(k) \cup {[m |-> m, p |-> q, n |-> n]}
PROOF
<1> DEFINE e == [m |-> m, p |-> q, n |-> n]
<1>1. e \in FanCast  BY DEF FanCast
<1>2. \A k \in PkgConductors : fanout[k] \in Seq(FanCast) /\ fanout'[k] = Append(fanout[k], e)
  BY DEF PkgTypes, Fanout
<1>3. fanout' = [k \in PkgConductors |-> Append(fanout[k], e)]  BY DEF Fanout
<1>4. fanout' \in [PkgConductors -> Seq(FanCast)]
  <2>1. \A k \in PkgConductors : Append(fanout[k], e) \in Seq(FanCast)  BY <1>1, <1>2
  <2>2. QED  BY <1>3, <2>1
<1>5. ASSUME NEW k \in PkgConductors  PROVE Entries(k)' = Entries(k) \cup {e}
  <2> HIDE DEF e
  <2> DEFINE s == fanout[k]
  <2>1. s \in Seq(FanCast) /\ fanout'[k] = Append(s, e)  BY <1>2
  <2>2. DOMAIN s = 1..Len(s) /\ Len(s) \in Nat /\ DOMAIN Append(s, e) = 1..(Len(s) + 1)  BY <2>1, <1>1
  <2>3. \A i \in 1..Len(s) : Append(s, e)[i] = s[i]  BY <2>1, <1>1
  <2>4. Append(s, e)[Len(s) + 1] = e  BY <2>1, <1>1
  <2>5. Entries(k)' = {Append(s, e)[i] : i \in 1..(Len(s) + 1)}  BY <2>1, <2>2 DEF Entries
  <2>6. Entries(k) = {s[i] : i \in 1..Len(s)}  BY <2>2 DEF Entries
  <2>7. \A x \in Entries(k)' : x \in Entries(k) \cup {e}
    <3> SUFFICES ASSUME NEW i \in 1..(Len(s) + 1)
                 PROVE  Append(s, e)[i] \in Entries(k) \cup {e}
      BY <2>5
    <3>1. CASE i = Len(s) + 1  BY <3>1, <2>4
    <3>2. CASE i # Len(s) + 1
      <4>1. i \in 1..Len(s)  BY <3>2, <2>2
      <4>2. QED  BY <4>1, <2>3, <2>6
    <3>3. QED  BY <3>1, <3>2
  <2>8. \A x \in Entries(k) \cup {e} : x \in Entries(k)'
    <3>1. e \in Entries(k)'
      <4>1. Len(s) + 1 \in 1..(Len(s) + 1)  BY <2>2
      <4>2. QED  BY <4>1, <2>4, <2>5
    <3>2. \A i \in 1..Len(s) : s[i] \in Entries(k)'
      <4>1. \A i \in 1..Len(s) : i \in 1..(Len(s) + 1)  BY <2>2
      <4>2. QED  BY <4>1, <2>3, <2>5
    <3>3. QED  BY <3>1, <3>2, <2>6
  <2>9. QED  BY <2>7, <2>8
<1>6. QED  BY <1>4, <1>5

\* A conductor takes the first entry of its queue.
LEMMA FanoutTaken ==
    ASSUME PkgTypes, NEW k \in PkgConductors, fanout[k] # <<>>,
           fanout' = [fanout EXCEPT ![k] = Tail(@)]
    PROVE  /\ fanout' \in [PkgConductors -> Seq(FanCast)]
           /\ Head(fanout[k]) \in FanCast /\ Head(fanout[k]) \in Entries(k)
           /\ Entries(k)' \subseteq Entries(k)
           /\ \A e \in Entries(k) : e = Head(fanout[k]) \/ e \in Entries(k)'
           /\ \A j \in PkgConductors : j # k => Entries(j)' = Entries(j)
PROOF
<1> DEFINE s == fanout[k]
<1>1. s \in Seq(FanCast) /\ s # <<>>  BY DEF PkgTypes
<1>2. Tail(s) \in Seq(FanCast) /\ Len(Tail(s)) = Len(s) - 1 /\ Head(s) = s[1] /\ Len(s) \in Nat /\ Len(s) >= 1
  BY <1>1
<1>3. fanout'[k] = Tail(s) /\ \A j \in PkgConductors : j # k => fanout'[j] = fanout[j]
  BY DEF PkgTypes
<1>4. fanout' \in [PkgConductors -> Seq(FanCast)]  BY <1>2 DEF PkgTypes
<1>5. DOMAIN s = 1..Len(s) /\ DOMAIN Tail(s) = 1..(Len(s) - 1)  BY <1>1, <1>2
<1>6. \A i \in 1..(Len(s) - 1) : Tail(s)[i] = s[i + 1]  BY <1>1
<1>7. Entries(k) = {s[i] : i \in 1..Len(s)}  BY <1>5 DEF Entries
<1>8. Entries(k)' = {Tail(s)[i] : i \in 1..(Len(s) - 1)}  BY <1>3, <1>5 DEF Entries
<1>9. Head(s) \in Entries(k)
  <2>1. 1 \in 1..Len(s)  BY <1>2
  <2>2. QED  BY <2>1, <1>2, <1>7
<1>10. Head(s) \in FanCast  BY <1>1, <1>2, <1>5
<1>11. Entries(k)' \subseteq Entries(k)
  <2>1. \A i \in 1..(Len(s) - 1) : i + 1 \in 1..Len(s)  BY <1>2
  <2>2. QED  BY <2>1, <1>6, <1>7, <1>8
<1>12. ASSUME NEW i \in 1..Len(s)  PROVE s[i] = Head(s) \/ s[i] \in Entries(k)'
  <2>1. CASE i = 1  BY <2>1, <1>2
  <2>2. CASE i # 1
    <3>1. i - 1 \in 1..(Len(s) - 1) /\ (i - 1) + 1 = i  BY <2>2, <1>2
    <3>2. Tail(s)[i - 1] = s[i]  BY <3>1, <1>6
    <3>3. QED  BY <3>1, <3>2, <1>8
  <2>3. QED  BY <2>1, <2>2
<1>13. \A e \in Entries(k) : e = Head(s) \/ e \in Entries(k)'  BY <1>7, <1>12
<1>14. \A j \in PkgConductors : j # k => Entries(j)' = Entries(j)  BY <1>3 DEF Entries
<1>15. QED  BY <1>4, <1>9, <1>10, <1>11, <1>13, <1>14

----------------------------------------------------------------------------

\* The fields of a request by its step.
LEMMA ReqFields ==
    ASSUME PkgTypes, NEW u \in PkgReqs
    PROVE  /\ pkgReq[u] \in PkgRequest
           /\ pkgReq[u].pc # "idle" => pkgReq[u].p \in Pkgs
           /\ pkgReq[u].pc \in UploadSteps => pkgReq[u] \in UploadReq
           /\ pkgReq[u].pc = "patch" => pkgReq[u] \in PatchReq
           /\ pkgReq[u].pc = "destroy" => pkgReq[u] \in DestroyReq
           /\ pkgReq[u].pc \in {"insert", "usage"} => pkgReq[u] \in ReadReq
           /\ pkgReq[u].pc = "saveUsage" => pkgReq[u] \in SaveReq
PROOF
<1>1. pkgReq[u] \in PkgRequest  BY DEF PkgTypes
<1>2. QED
  BY <1>1 DEF PkgRequest, NoReq, UploadReq, PatchReq, DestroyReq, ReadReq, SaveReq, UploadSteps

\* Requests, rows, instances, casts and conductors name packages that were created.
LEMMA Known ==
    ASSUME PkgInv
    PROVE  /\ \A u \in PkgReqs : pkgReq[u].pc # "idle" => pkg[pkgReq[u].p].state # "none"
           /\ \A p \in vnfdRow : pkg[p].state # "none"
           /\ \A i \in pkgInst : i \in PkgInstance /\ i.p \in Pkgs /\ pkg[i.p].state # "none"
           /\ \A c \in pkgCasts : c \in PkgCast /\ c.p \in Pkgs /\ c.n \in Number /\ pkg[c.p].state # "none"
           /\ \A k \in PkgConductors : pkgCond[k].pc # "idle" => pkg[pkgCond[k].p].state # "none"
           /\ \A k \in PkgConductors : \A e \in Entries(k) : pkg[e.p].state # "none"
PROOF
<1>1. PkgTypes  BY DEF PkgInv
<1>2. \A p \in Pkgs : pkg[p].state = "none" => NoneInv(p)  BY DEF PkgInv, PkgOk
<1>3. \A u \in PkgReqs : pkgReq[u].pc # "idle" => pkgReq[u].p \in Pkgs  BY <1>1, ReqFields
<1>4. \A i \in pkgInst : i \in PkgInstance /\ i.p \in Pkgs  BY <1>1 DEF PkgTypes, PkgInstance
<1>5. \A c \in pkgCasts : c \in PkgCast /\ c.p \in Pkgs /\ c.n \in Number  BY <1>1 DEF PkgTypes, PkgCast
<1>6. \A k \in PkgConductors : pkgCond[k].p \in Pkgs  BY <1>1 DEF PkgTypes, CondRow
<1>7. \A k \in PkgConductors : \A e \in Entries(k) : e.p \in Pkgs  BY <1>1, EntryTypes DEF FanCast
<1>8. vnfdRow \subseteq Pkgs  BY <1>1 DEF PkgTypes
<1>9. \A u \in PkgReqs : pkgReq[u].pc # "idle" => pkg[pkgReq[u].p].state # "none"
  BY <1>2, <1>3 DEF NoneInv
<1>10. \A p \in vnfdRow : pkg[p].state # "none"  BY <1>2, <1>8 DEF NoneInv
<1>11. \A i \in pkgInst : pkg[i.p].state # "none"  BY <1>2, <1>4 DEF NoneInv
<1>12. \A c \in pkgCasts : pkg[c.p].state # "none"  BY <1>2, <1>5 DEF NoneInv
<1>13. \A k \in PkgConductors : pkgCond[k].pc # "idle" => pkg[pkgCond[k].p].state # "none"
  BY <1>2, <1>6 DEF NoneInv, NoConductor, Active
<1>14. \A k \in PkgConductors : \A e \in Entries(k) : pkg[e.p].state # "none"
  BY <1>2, <1>7 DEF NoneInv, NoConductor
<1>15. QED  BY <1>4, <1>5, <1>9, <1>10, <1>11, <1>12, <1>13, <1>14

\* A request that is not an upload leaves the invariant of the packages alone.
LEMMA OtherRequest ==
    ASSUME PkgInv, PkgTypes', InsertsOwn',
           NEW u \in PkgReqs, NEW r \in PkgRequest, ReqGoes(u, r),
           pkgReq[u].pc \notin UploadSteps, r.pc \notin UploadSteps,
           r.pc # "idle" => pkg[r.p].state # "none",
           \A p \in Pkgs : /\ pkg'[p].state = pkg[p].state
                           /\ pkg'[p].onboarding = pkg[p].onboarding
                           /\ pkg'[p].downloading = pkg[p].downloading,
           \A i \in pkgInst' : i \in pkgInst \/ pkg[i.p].state # "none",
           UNCHANGED <<vnfdRow, flavours, glance, extracted, pkgCond, pkgCasts, fanout, counted, pkgSplit,
                       pkgCut>>
    PROVE  PkgInv'
PROOF
<1>1. PkgTypes  BY DEF PkgInv
<1>2. /\ pkgReq'[u] = r
      /\ \A v \in PkgReqs : v # u => pkgReq'[v] = pkgReq[v]
  BY <1>1, PkgReqMoves
<1>3. OneRow'  BY DEF PkgInv, OneRow
<1>4. ASSUME NEW p \in Pkgs  PROVE Same(p)
  <2>1. \A v \in PkgReqs, s \in UploadSteps :
            (pkgReq'[v].pc = s /\ pkgReq'[v].p = p) <=> (pkgReq[v].pc = s /\ pkgReq[v].p = p)
    BY <1>2
  <2>2. pkg[p].state = "none" =>
          \A v \in PkgReqs : pkgReq'[v].pc # "idle" /\ pkgReq'[v].p = p =>
              pkgReq[v].pc # "idle" /\ pkgReq[v].p = p
    BY <1>2
  <2>3. pkg[p].state = "none" => \A i \in pkgInst' : i.p = p => i \in pkgInst
    OBVIOUS
  <2>4. \A k \in PkgConductors : Entries(k)' = Entries(k)  BY DEF Entries
  <2>5. \A k \in PkgConductors : Active(k, p)' <=> Active(k, p)  BY DEF Active
  <2>6. QED  BY <2>1, <2>2, <2>3, <2>4, <2>5 DEF Same
<1>5. QED  BY <1>3, <1>4, NoPackage

\* Rows that are unchanged keep their attributes.
LEMMA SameRows ==
    ASSUME UNCHANGED pkg
    PROVE  \A p \in Pkgs : /\ pkg'[p].state = pkg[p].state
                           /\ pkg'[p].onboarding = pkg[p].onboarding
                           /\ pkg'[p].downloading = pkg[p].downloading
OBVIOUS

\* update, and delete up to its check.
LEMMA PatchSteps ==
    ASSUME PkgInv, NEW u \in PkgReqs,
           (\E p \in Pkgs : patch_read(u, p) \/ pkg_delete(u, p)) \/ patch_save(u)
    PROVE  PkgInv'
PROOF
<1>1. PkgTypes /\ InsertsOwn  BY DEF PkgInv
<1>2. ASSUME NEW p \in Pkgs, patch_read(u, p)  PROVE PkgInv'
  <2> DEFINE r == [pc |-> "patch", p |-> p,
                   operational |-> IF pkg[p].operational = "ENABLED" THEN "DISABLED" ELSE "ENABLED"]
  <2>1. r \in PkgRequest /\ r.pc = "patch" /\ r.p = p  BY DEF PkgRequest, PatchReq
  <2>2. pkgReq[u].pc = "idle" /\ pkg[p].state = "live" /\ ReqGoes(u, r)
    BY <1>2 DEF patch_read, ReqAt, Live
  <2> HIDE DEF r
  <2>3. pkgReq' \in [PkgReqs -> PkgRequest] /\ pkgReq'[u] = r /\ \A v \in PkgReqs : v # u => pkgReq'[v] = pkgReq[v]
    BY <1>1, <2>1, <2>2, PkgReqMoves
  <2>4. PkgTypes'  BY <1>1, <1>2, <2>3 DEF PkgTypes, patch_read
  <2>5. InsertsOwn'  BY <1>1, <2>1, <2>3 DEF InsertsOwn, OwnPackage
  <2>6. UNCHANGED <<pkg, vnfdRow, flavours, glance, extracted, pkgInst, pkgCond, pkgCasts, fanout, counted,
                    pkgSplit, pkgCut>>
    BY <1>2 DEF patch_read
  <2>7. QED  BY <2>1, <2>2, <2>4, <2>5, <2>6, SameRows, OtherRequest DEF UploadSteps
<1>3. ASSUME NEW p \in Pkgs, pkg_delete(u, p)  PROVE PkgInv'
  <2> DEFINE r == [pc |-> "destroy", p |-> p, seen |-> pkg[p].onboarding]
  <2>1. r \in PkgRequest /\ r.pc = "destroy" /\ r.p = p
    <3>1. pkg[p].onboarding \in Onboarding  BY <1>1, PkgRows DEF PkgRow, Onboarding
    <3>2. QED  BY <3>1 DEF PkgRequest, DestroyReq
  <2>2. pkgReq[u].pc = "idle" /\ pkg[p].state = "live" /\ ReqGoes(u, r)
    BY <1>3 DEF pkg_delete, ReqAt, Live
  <2> HIDE DEF r
  <2>3. pkgReq' \in [PkgReqs -> PkgRequest] /\ pkgReq'[u] = r /\ \A v \in PkgReqs : v # u => pkgReq'[v] = pkgReq[v]
    BY <1>1, <2>1, <2>2, PkgReqMoves
  <2>4. PkgTypes'
    <3>1. usageRaced' \subseteq Pkgs  BY <1>1, <1>3 DEF PkgTypes, pkg_delete
    <3>2. QED  BY <1>1, <1>3, <2>3, <3>1 DEF PkgTypes, pkg_delete
  <2>5. InsertsOwn'  BY <1>1, <2>1, <2>3 DEF InsertsOwn, OwnPackage
  <2>6. UNCHANGED <<pkg, vnfdRow, flavours, glance, extracted, pkgInst, pkgCond, pkgCasts, fanout, counted,
                    pkgSplit, pkgCut>>
    BY <1>3 DEF pkg_delete
  <2>7. QED  BY <2>1, <2>2, <2>4, <2>5, <2>6, SameRows, OtherRequest DEF UploadSteps
<1>4. ASSUME patch_save(u)  PROVE PkgInv'
  <2> DEFINE q == pkgReq[u].p
  <2>1. pkgReq[u].pc = "patch" /\ ReqGoes(u, NoReq)  BY <1>4 DEF patch_save, ReqAt
  <2>2. q \in Pkgs /\ pkgReq[u].operational \in {"ENABLED", "DISABLED"}
    BY <1>1, <2>1, ReqFields DEF PatchReq
  <2>3. NoReq \in PkgRequest /\ NoReq.pc = "idle"  BY DEF PkgRequest, NoReq
  <2>4. pkgReq' \in [PkgReqs -> PkgRequest] /\ pkgReq'[u] = NoReq /\ \A v \in PkgReqs : v # u => pkgReq'[v] = pkgReq[v]
    BY <1>1, <2>1, <2>3, PkgReqMoves
  <2>5. /\ pkg' \in [Pkgs -> PkgRow]
        /\ \A p \in Pkgs : /\ pkg'[p].state = pkg[p].state
                           /\ pkg'[p].onboarding = pkg[p].onboarding
                           /\ pkg'[p].downloading = pkg[p].downloading
    <3>1. CASE Live(q)
      <4>1. pkg' = [pkg EXCEPT ![q].operational = pkgReq[u].operational]  BY <1>4, <3>1 DEF patch_save
      <4> HIDE DEF q
      <4>2. QED  BY <1>1, <2>2, <4>1, OperationalMoves
    <3>2. CASE ~Live(q)
      <4>1. UNCHANGED pkg  BY <1>4, <3>2 DEF patch_save
      <4>2. QED  BY <1>1, <4>1, PkgRows
    <3>3. QED  BY <3>1, <3>2
  <2>6. UNCHANGED <<vnfdRow, flavours, glance, extracted, pkgInst, pkgCond, pkgCasts, fanout, uploads, counted,
                    pkgSplit, pkgCut, usageRaced>>
    BY <1>4 DEF patch_save
  <2>7. PkgTypes'  BY <1>1, <2>4, <2>5, <2>6 DEF PkgTypes
  <2>8. InsertsOwn'  BY <1>1, <2>3, <2>4 DEF InsertsOwn, OwnPackage
  <2>9. QED  BY <2>1, <2>3, <2>5, <2>6, <2>7, <2>8, OtherRequest DEF UploadSteps
<1>5. QED  BY <1>2, <1>3, <1>4

\* A request that has ended.
LEMMA IdleReq == NoReq \in PkgRequest /\ NoReq.pc = "idle"
BY DEF PkgRequest, NoReq

\* Creating an instance up to its check.
LEMMA CreateStep ==
    ASSUME PkgInv, NEW u \in PkgReqs, NEW p \in Pkgs, NEW i \in PkgInsts, NEW s \in Stacks, inst_create(u, i, s, p)
    PROVE  PkgInv'
PROOF
<1>1. PkgTypes /\ InsertsOwn  BY DEF PkgInv
<1> DEFINE x == [id |-> i, stack |-> s, p |-> p]
<1> DEFINE r == [pc |-> "insert", p |-> p, inst |-> x, create |-> TRUE]
<1>2. x \in PkgInstance /\ x.p = p  BY DEF PkgInstance
<1>3. pkgReq[u].pc = "idle" /\ p \in vnfdRow /\ ReqGoes(u, r)  BY DEF inst_create, ReqAt
<1> HIDE DEF x
<1>4. r \in PkgRequest /\ r.pc = "insert" /\ r.p = p /\ r.inst.p = p /\ r.create
  BY <1>2 DEF PkgRequest, ReadReq
<1> HIDE DEF r
<1>5. pkgReq' \in [PkgReqs -> PkgRequest] /\ pkgReq'[u] = r /\ \A v \in PkgReqs : v # u => pkgReq'[v] = pkgReq[v]
  BY <1>1, <1>3, <1>4, PkgReqMoves
<1>6. UNCHANGED <<pkg, vnfdRow, flavours, glance, extracted, pkgInst, pkgCond, pkgCasts, fanout, uploads, counted,
                  pkgSplit, pkgCut>>
  BY DEF inst_create
<1>7. PkgTypes'
  <2>1. usageRaced' \subseteq Pkgs  BY <1>1 DEF PkgTypes, inst_create
  <2>2. QED  BY <1>1, <1>5, <1>6, <2>1 DEF PkgTypes
<1>8. InsertsOwn'  BY <1>1, <1>4, <1>5 DEF InsertsOwn, OwnPackage
<1>9. pkg[p].state # "none"  BY <1>3, Known
<1>10. QED  BY <1>3, <1>4, <1>6, <1>7, <1>8, <1>9, SameRows, OtherRequest DEF UploadSteps

\* The row of an instance is inserted.
LEMMA InsertStep ==
    ASSUME PkgInv, NEW u \in PkgReqs, inst_insert(u)
    PROVE  PkgInv'
PROOF
<1>1. PkgTypes /\ InsertsOwn  BY DEF PkgInv
<1> DEFINE r == [pkgReq[u] EXCEPT !.pc = "usage"]
<1>2. pkgReq[u].pc = "insert" /\ ReqGoes(u, r) /\ pkgInst' = pkgInst \cup {pkgReq[u].inst}
  BY DEF inst_insert, ReqAt
<1>3. pkgReq[u] \in ReadReq  BY <1>1, <1>2, ReqFields
<1>4. r \in ReadReq /\ r.pc = "usage" /\ r.p = pkgReq[u].p /\ r.inst = pkgReq[u].inst  BY <1>3 DEF ReadReq
<1>5. r \in PkgRequest  BY <1>4 DEF PkgRequest
<1> HIDE DEF r
<1>6. pkgReq' \in [PkgReqs -> PkgRequest] /\ pkgReq'[u] = r /\ \A v \in PkgReqs : v # u => pkgReq'[v] = pkgReq[v]
  BY <1>1, <1>2, <1>5, PkgReqMoves
<1>7. UNCHANGED <<pkg, vnfdRow, flavours, glance, extracted, pkgCond, pkgCasts, fanout, uploads, counted,
                  pkgSplit, pkgCut, usageRaced>>
  BY DEF inst_insert
<1>8. PkgTypes'
  <2>1. pkgInst' \subseteq PkgInstance  BY <1>1, <1>2, <1>3 DEF PkgTypes, ReadReq
  <2>2. QED  BY <1>1, <1>6, <1>7, <2>1 DEF PkgTypes
<1>9. InsertsOwn'
  <2>1. OwnPackage(r)  BY <1>1, <1>2, <1>4 DEF InsertsOwn, OwnPackage
  <2>2. QED  BY <1>1, <1>6, <2>1 DEF InsertsOwn
<1>10. pkg[pkgReq[u].p].state # "none"  BY <1>2, Known
<1>11. pkgReq[u].inst.p = pkgReq[u].p  BY <1>1, <1>2 DEF InsertsOwn, OwnPackage
<1>12. \A i \in pkgInst' : i \in pkgInst \/ pkg[i.p].state # "none"  BY <1>2, <1>10, <1>11
<1>13. pkgReq[u].pc \notin UploadSteps /\ r.pc \notin UploadSteps  BY <1>2, <1>4 DEF UploadSteps
<1>14. r.pc # "idle" => pkg[r.p].state # "none"  BY <1>4, <1>10
<1>15. \A p \in Pkgs : /\ pkg'[p].state = pkg[p].state
                       /\ pkg'[p].onboarding = pkg[p].onboarding
                       /\ pkg'[p].downloading = pkg[p].downloading
  BY <1>7
<1>16. QED  BY <1>2, <1>5, <1>7, <1>8, <1>9, <1>12, <1>13, <1>14, <1>15, OtherRequest

\* The row of an instance is deleted.
LEMMA DeleteInstStep ==
    ASSUME PkgInv, NEW u \in PkgReqs, NEW p \in Pkgs, NEW i \in pkgInst, inst_delete(u, i, p)
    PROVE  PkgInv'
PROOF
<1>1. PkgTypes /\ InsertsOwn  BY DEF PkgInv
<1> DEFINE r == [pc |-> "usage", p |-> p, inst |-> i, create |-> FALSE]
<1>2. pkgReq[u].pc = "idle" /\ ReqGoes(u, r) /\ pkgInst' = pkgInst \ {i}
  BY DEF inst_delete, ReqAt
<1>3. p \in vnfdRow \/ p = i.p  BY DEF inst_delete
<1>4. i \in PkgInstance /\ pkg[p].state # "none"  BY <1>3, Known
<1>5. r \in PkgRequest /\ r.pc = "usage" /\ r.p = p /\ ~r.create  BY <1>4 DEF PkgRequest, ReadReq
<1> HIDE DEF r
<1>6. pkgReq' \in [PkgReqs -> PkgRequest] /\ pkgReq'[u] = r /\ \A v \in PkgReqs : v # u => pkgReq'[v] = pkgReq[v]
  BY <1>1, <1>2, <1>5, PkgReqMoves
<1>7. UNCHANGED <<pkg, vnfdRow, flavours, glance, extracted, pkgCond, pkgCasts, fanout, uploads, counted,
                  pkgSplit, pkgCut>>
  BY DEF inst_delete
<1>8. PkgTypes'
  <2>1. usageRaced' \subseteq Pkgs  BY <1>1 DEF PkgTypes, inst_delete
  <2>2. pkgInst' \subseteq PkgInstance  BY <1>1, <1>2 DEF PkgTypes
  <2>3. QED  BY <1>1, <1>6, <1>7, <2>1, <2>2 DEF PkgTypes
<1>9. InsertsOwn'
  <2>1. OwnPackage(r)  BY <1>5 DEF OwnPackage
  <2>2. QED  BY <1>1, <1>6, <2>1 DEF InsertsOwn
<1>10. pkgReq[u].pc \notin UploadSteps /\ r.pc \notin UploadSteps  BY <1>2, <1>5 DEF UploadSteps
<1>11. \A x \in Pkgs : /\ pkg'[x].state = pkg[x].state
                       /\ pkg'[x].onboarding = pkg[x].onboarding
                       /\ pkg'[x].downloading = pkg[x].downloading
  BY <1>7
<1>12. QED  BY <1>2, <1>4, <1>5, <1>7, <1>8, <1>9, <1>10, <1>11, OtherRequest

\* The instances of a package are looked up.
LEMMA UsageReadStep ==
    ASSUME PkgInv, NEW u \in PkgReqs, NEW p \in Pkgs, usage_read(u, p)
    PROVE  PkgInv'
PROOF
<1>1. PkgTypes /\ InsertsOwn  BY DEF PkgInv
<1> DEFINE q == pkgReq[u]
           v1 == q.inst.stack = "v1"
           inUse == IF v1 THEN is_package_in_use(p, q) ELSE q.create
           r == [pc |-> "saveUsage", p |-> p, inst |-> q.inst, create |-> q.create, inUse |-> inUse]
<1>2. q.pc = "usage" /\ (p = q.p \/ p \in vnfdRow)  BY DEF usage_read, ReqAt
<1>3. ReqGoes(u, r) \/ ReqGoes(u, NoReq)  BY DEF usage_read
<1>4. pkgInst' \subseteq pkgInst  BY DEF usage_read
<1>5. pkg[p].state # "none"  BY <1>2, Known
<1>6. q \in ReadReq  BY <1>1, <1>2, ReqFields
<1>7. inUse \in BOOLEAN
  <2>1. q.create \in BOOLEAN  BY <1>6 DEF ReadReq
  <2>2. is_package_in_use(p, q) \in BOOLEAN  BY DEF is_package_in_use
  <2>3. QED  BY <2>1, <2>2
<1> HIDE DEF inUse
<1>8. r \in PkgRequest /\ r.pc = "saveUsage" /\ r.p = p /\ r.inst = q.inst /\ r.create = q.create
  <2>1. r \in SaveReq  BY <1>6, <1>7 DEF SaveReq, ReadReq
  <2>2. QED  BY <2>1 DEF PkgRequest
<1> HIDE DEF r
<1>9. PICK z \in {r, NoReq} : ReqGoes(u, z)  BY <1>3
<1>10. z \in PkgRequest /\ z.pc \in {"saveUsage", "idle"} /\ (z.pc # "idle" => z.p = p)
  BY <1>8, <1>9, IdleReq
<1>11. pkgReq' \in [PkgReqs -> PkgRequest] /\ pkgReq'[u] = z /\ \A v \in PkgReqs : v # u => pkgReq'[v] = pkgReq[v]
  BY <1>1, <1>9, <1>10, PkgReqMoves
<1>12. UNCHANGED <<pkg, vnfdRow, flavours, glance, extracted, pkgCond, pkgCasts, fanout, uploads, counted,
                   pkgSplit, pkgCut>>
  BY DEF usage_read
<1>13. PkgTypes'
  <2>1. usageRaced' \subseteq Pkgs  BY <1>1 DEF PkgTypes, usage_read
  <2>2. QED  BY <1>1, <1>4, <1>11, <1>12, <2>1 DEF PkgTypes
<1>14. InsertsOwn'
  <2>1. v1 => p = q.p  BY DEF usage_read
  <2>2. OwnPackage(q)  BY <1>1 DEF InsertsOwn
  <2>3. OwnPackage(r)  BY <1>2, <1>8, <2>1, <2>2 DEF OwnPackage
  <2>4. OwnPackage(z)  BY <1>9, <2>3, IdleReq DEF OwnPackage
  <2>5. QED  BY <1>1, <1>11, <2>4 DEF InsertsOwn
<1>15. pkgReq[u].pc \notin UploadSteps /\ z.pc \notin UploadSteps  BY <1>2, <1>10 DEF UploadSteps
<1>16. \A x \in Pkgs : /\ pkg'[x].state = pkg[x].state
                       /\ pkg'[x].onboarding = pkg[x].onboarding
                       /\ pkg'[x].downloading = pkg[x].downloading
  BY <1>12
<1>17. z.pc # "idle" => pkg[z.p].state # "none"  BY <1>5, <1>10
<1>18. \A i \in pkgInst' : i \in pkgInst \/ pkg[i.p].state # "none"  BY <1>4
<1>19. QED  BY <1>9, <1>10, <1>12, <1>13, <1>14, <1>15, <1>16, <1>17, <1>18, OtherRequest

\* The usage state is written.
LEMMA UsageSaveStep ==
    ASSUME PkgInv, NEW u \in PkgReqs, usage_save(u)
    PROVE  PkgInv'
PROOF
<1>1. PkgTypes /\ InsertsOwn  BY DEF PkgInv
<1> DEFINE q == pkgReq[u].p
           s == IF pkgReq[u].inUse THEN "IN_USE" ELSE "NOT_IN_USE"
<1>2. pkgReq[u].pc = "saveUsage" /\ ReqGoes(u, NoReq)  BY DEF usage_save, ReqAt
<1>3. q \in Pkgs /\ s \in {"IN_USE", "NOT_IN_USE"}  BY <1>1, <1>2, ReqFields
<1>4. pkgInst' \subseteq pkgInst  BY DEF usage_save
<1>5. pkgReq' \in [PkgReqs -> PkgRequest] /\ pkgReq'[u] = NoReq /\ \A v \in PkgReqs : v # u => pkgReq'[v] = pkgReq[v]
  BY <1>1, <1>2, IdleReq, PkgReqMoves
<1>6. /\ pkg' \in [Pkgs -> PkgRow]
      /\ \A p \in Pkgs : /\ pkg'[p].state = pkg[p].state
                         /\ pkg'[p].onboarding = pkg[p].onboarding
                         /\ pkg'[p].downloading = pkg[p].downloading
  <2>1. CASE Live(q)
    <3>1. pkg' = [pkg EXCEPT ![q].usage = s]  BY <2>1 DEF usage_save
    <3> HIDE DEF q, s
    <3>2. QED  BY <1>1, <1>3, <3>1, UsageMoves
  <2>2. CASE ~Live(q)
    <3>1. UNCHANGED pkg  BY <2>2 DEF usage_save
    <3>2. QED  BY <1>1, <3>1, PkgRows
  <2>3. QED  BY <2>1, <2>2
<1>7. UNCHANGED <<vnfdRow, flavours, glance, extracted, pkgCond, pkgCasts, fanout, uploads, counted,
                  pkgSplit, pkgCut, usageRaced>>
  BY DEF usage_save
<1>8. PkgTypes'  BY <1>1, <1>4, <1>5, <1>6, <1>7 DEF PkgTypes
<1>9. InsertsOwn'  BY <1>1, <1>5, IdleReq DEF InsertsOwn, OwnPackage
<1>10. pkgReq[u].pc \notin UploadSteps /\ NoReq.pc \notin UploadSteps  BY <1>2, IdleReq DEF UploadSteps
<1>11. \A i \in pkgInst' : i \in pkgInst \/ pkg[i.p].state # "none"  BY <1>4
<1>12. QED  BY <1>2, <1>6, <1>7, <1>8, <1>9, <1>10, <1>11, IdleReq, OtherRequest

----------------------------------------------------------------------------
\* A step that touches package q only, as seen by the tables, the queues and the
\* threads.
Only(q) ==
    /\ \A x \in Pkgs : x # q => pkg'[x] = pkg[x]
    /\ \A x \in Pkgs : x # q => (x \in glance' <=> x \in glance)
    /\ \A x \in Pkgs : x # q => (x \in vnfdRow' <=> x \in vnfdRow)
    /\ \A x \in Pkgs : x # q => (x \in flavours' <=> x \in flavours)
    /\ \A x \in Pkgs, k \in PkgConductors : x # q => (<<k, x>> \in extracted' <=> <<k, x>> \in extracted)
    /\ \A u \in PkgReqs : \/ pkgReq'[u] = pkgReq[u]
                          \/ /\ pkgReq[u].pc = "idle" \/ pkgReq[u].p = q
                             /\ pkgReq'[u].pc = "idle" \/ pkgReq'[u].p = q
    /\ \A c \in PkgCast : c.p # q => (c \in pkgCasts' <=> c \in pkgCasts)
    /\ \A k \in PkgConductors : \/ pkgCond'[k] = pkgCond[k]
                                \/ /\ pkgCond[k].pc = "idle" \/ pkgCond[k].p = q
                                   /\ pkgCond'[k].pc = "idle" \/ pkgCond'[k].p = q
    /\ \A k \in PkgConductors : \A e \in FanCast : e.p # q => (e \in Entries(k)' <=> e \in Entries(k))
    /\ UNCHANGED pkgInst
    /\ counted \subseteq counted' /\ pkgSplit \subseteq pkgSplit' /\ pkgCut \subseteq pkgCut'

\* Such a step leaves the other packages alone ...
LEMMA OnlySame ==
    ASSUME NEW q, Only(q), NEW p \in Pkgs, p # q
    PROVE  Same(p)
PROOF
<1>1. /\ pkg'[p] = pkg[p]
      /\ p \in glance' <=> p \in glance
      /\ p \in vnfdRow' <=> p \in vnfdRow
      /\ p \in flavours' <=> p \in flavours
      /\ \A k \in PkgConductors : <<k, p>> \in extracted' <=> <<k, p>> \in extracted
      /\ \A c \in PkgCast : c.p = p => (c \in pkgCasts' <=> c \in pkgCasts)
      /\ \A k \in PkgConductors : \A e \in FanCast : e.p = p => (e \in Entries(k)' <=> e \in Entries(k))
      /\ UNCHANGED pkgInst
      /\ counted \subseteq counted' /\ pkgSplit \subseteq pkgSplit' /\ pkgCut \subseteq pkgCut'
  BY DEF Only
<1>2. \A u \in PkgReqs : \/ pkgReq'[u] = pkgReq[u]
                         \/ /\ pkgReq[u].pc = "idle" \/ pkgReq[u].p = q
                            /\ pkgReq'[u].pc = "idle" \/ pkgReq'[u].p = q
  BY DEF Only
<1>3. \A k \in PkgConductors : \/ pkgCond'[k] = pkgCond[k]
                               \/ /\ pkgCond[k].pc = "idle" \/ pkgCond[k].p = q
                                  /\ pkgCond'[k].pc = "idle" \/ pkgCond'[k].p = q
  BY DEF Only
<1>4. \A u \in PkgReqs, s \in UploadSteps :
          (pkgReq'[u].pc = s /\ pkgReq'[u].p = p) <=> (pkgReq[u].pc = s /\ pkgReq[u].p = p)
  <2>1. "idle" \notin UploadSteps  BY DEF UploadSteps
  <2>2. QED  BY <1>2, <2>1
<1>5. \A u \in PkgReqs : pkgReq'[u].pc # "idle" /\ pkgReq'[u].p = p => pkgReq[u].pc # "idle" /\ pkgReq[u].p = p
  BY <1>2
<1>6. \A k \in PkgConductors : (Active(k, p)' <=> Active(k, p)) /\ (Active(k, p) => pkgCond'[k] = pkgCond[k])
  BY <1>3 DEF Active
<1>7. QED  BY <1>1, <1>4, <1>5, <1>6 DEF Same

\* ... and has to establish the invariant of q only.
LEMMA OnlyPackage ==
    ASSUME PkgInv, PkgTypes', OneRow', InsertsOwn', NEW q, Only(q), PkgOk(q)'
    PROVE  PkgInv'
PROOF
<1>1. \A p \in Pkgs : p # q => Same(p)  BY OnlySame
<1>2. QED  BY <1>1, OnePackage

\* create: the row of a new package.
LEMMA NewPkgStep ==
    ASSUME PkgInv, NEW q \in Pkgs, pkg_create(q)
    PROVE  PkgInv'
PROOF
<1>1. PkgTypes /\ InsertsOwn /\ OneRow /\ PkgOk(q)  BY DEF PkgInv
<1>2. pkg[q].state = "none" /\ pkg' = [pkg EXCEPT ![q] = NewPkg]  BY DEF pkg_create
<1>3. UNCHANGED <<vnfdRow, flavours, glance, extracted, pkgInst, pkgReq, pkgCond, pkgCasts, fanout,
                  uploads, counted, pkgSplit, pkgCut, usageRaced>>
  BY DEF pkg_create
<1>4. NewPkg \in PkgRow /\ NewPkg.state = "live" /\ NewPkg.onboarding = "CREATED"  BY DEF NewPkg, PkgRow
<1>5. /\ pkg' \in [Pkgs -> PkgRow]
      /\ pkg'[q] = NewPkg
      /\ \A x \in Pkgs : x # q => pkg'[x] = pkg[x]
  BY <1>1, <1>2, <1>4, RowMoves
<1>6. PkgTypes'  BY <1>1, <1>3, <1>5 DEF PkgTypes
<1>7. InsertsOwn' /\ OneRow'  BY <1>1, <1>3 DEF InsertsOwn, OneRow
<1>8. \A k \in PkgConductors : Entries(k)' = Entries(k)  BY <1>3 DEF Entries
<1>9. Only(q)  BY <1>3, <1>5, <1>8 DEF Only
<1>10. NoneInv(q)  BY <1>1, <1>2 DEF PkgOk
<1>11. LiveInv(q)'
  <2>1. \A u \in PkgReqs : pkgReq'[u].pc # "idle" => pkgReq'[u].p # q  BY <1>3, <1>10 DEF NoneInv
  <2>2. \A c \in pkgCasts' : c.p # q  BY <1>3, <1>10 DEF NoneInv
  <2>3. OneUpload(q)'  BY <2>1, <2>2 DEF OneUpload, UpReq, UpCast
  <2>4. CreatedInv(q)'
    <3>1. \A k \in PkgConductors : ~Active(k, q)  BY <1>10 DEF NoneInv, NoConductor
    <3>2. \A k \in PkgConductors : ~CondIn(k, q, {"onboard", "save"})'  BY <1>3, <3>1 DEF Active, CondIn
    <3>3. q \notin glance' /\ q \notin vnfdRow' /\ q \notin flavours'  BY <1>3, <1>10 DEF NoneInv
    <3>4. QED  BY <3>2, <3>3 DEF CreatedInv
  <2>5. pkg'[q].onboarding = "CREATED"  BY <1>4, <1>5
  <2>6. QED  BY <2>3, <2>4, <2>5 DEF LiveInv
<1>12. PkgOk(q)'
  <2>1. pkg'[q].state = "live"  BY <1>4, <1>5
  <2>2. QED  BY <1>11, <2>1 DEF PkgOk
<1>13. QED  BY <1>6, <1>7, <1>9, <1>12, OnlyPackage

\* An upload up to its check of the onboarding state.
LEMMA UploadReadStep ==
    ASSUME PkgInv, NEW u \in PkgReqs, NEW q \in Pkgs, NEW from \in {"content", "uri"}, upload_read(u, q, from)
    PROVE  PkgInv'
PROOF
<1>1. PkgTypes /\ InsertsOwn /\ OneRow /\ PkgOk(q)  BY DEF PkgInv
<1> DEFINE r == [pc |-> "mark", p |-> q, from |-> from, n |-> uploads']
<1>2. /\ uploads < MaxUploads /\ uploads' = uploads + 1
      /\ pkgReq[u].pc = "idle" /\ ReqGoes(u, r)
      /\ pkg[q].state = "live" /\ pkg[q].onboarding = "CREATED"
  BY DEF upload_read, ReqAt, Live
<1>3. UNCHANGED <<pkg, vnfdRow, flavours, glance, extracted, pkgInst, pkgCond, pkgCasts, fanout,
                  counted, pkgSplit, pkgCut, usageRaced>>
  BY DEF upload_read
<1>4. uploads' \in Number  BY <1>1, <1>2, VnfPackagesAssumption DEF PkgTypes, Number
<1>5. r \in PkgRequest /\ r.pc = "mark" /\ r.p = q  BY <1>4 DEF PkgRequest, UploadReq
<1> HIDE DEF r
<1>6. pkgReq' \in [PkgReqs -> PkgRequest] /\ pkgReq'[u] = r /\ \A v \in PkgReqs : v # u => pkgReq'[v] = pkgReq[v]
  BY <1>1, <1>2, <1>5, PkgReqMoves
<1>7. PkgTypes'  BY <1>1, <1>3, <1>4, <1>6 DEF PkgTypes
<1>8. InsertsOwn' /\ OneRow'  BY <1>1, <1>3, <1>5, <1>6 DEF InsertsOwn, OneRow, OwnPackage
<1>9. \A k \in PkgConductors : Entries(k)' = Entries(k)  BY <1>3 DEF Entries
<1>10. Only(q)
  <2>1. \A v \in PkgReqs : \/ pkgReq'[v] = pkgReq[v]
                           \/ /\ pkgReq[v].pc = "idle" \/ pkgReq[v].p = q
                              /\ pkgReq'[v].pc = "idle" \/ pkgReq'[v].p = q
    BY <1>2, <1>5, <1>6
  <2>2. QED  BY <1>3, <1>9, <2>1 DEF Only
<1>11. ASSUME LiveInv(q)  PROVE LiveInv(q)'
  <2>1. OneUpload(q)'
    <3>1. OneUpload(q)  BY <1>11 DEF LiveInv
    <3>2. \A v \in PkgReqs : UpReq(v, q)' => UpReq(v, q)  BY <1>5, <1>6 DEF UpReq
    <3>3. \A c \in PkgCast : UpCast(c, q)' <=> UpCast(c, q)  BY <1>3 DEF UpCast
    <3>4. QED  BY <1>2, <1>3, <3>1, <3>2, <3>3 DEF OneUpload
  <2>2. CreatedInv(q)'
    <3>1. CreatedInv(q)  BY <1>2, <1>11 DEF LiveInv
    <3>2. QED  BY <1>3, <3>1 DEF CreatedInv, CondIn
  <2>3. QED  BY <1>2, <1>3, <2>1, <2>2 DEF LiveInv
<1>12. PkgOk(q)'  BY <1>1, <1>2, <1>3, <1>11 DEF PkgOk, Live
<1>13. QED  BY <1>7, <1>8, <1>10, <1>12, OnlyPackage

\* What it means that no upload of p is under way.
LEMMA NotUploading ==
    ASSUME NEW p, NEW u, ~Uploading(p, u)
    PROVE  /\ \A v \in PkgReqs : v # u /\ pkgReq[v].pc \in UploadSteps => pkgReq[v].p # p
           /\ \A c \in pkgCasts : c.m \in {"content", "uri"} => c.p # p
           /\ NoConductor(p)
PROOF
<1>1. \A v \in PkgReqs \ {u} : ~(pkgReq[v].pc \in {"mark", "store", "stored"} /\ pkgReq[v].p = p)
  BY DEF Uploading
<1>2. \A c \in pkgCasts : ~(c.m \in {"content", "uri"} /\ c.p = p)  BY DEF Uploading
<1>3. \A k \in PkgConductors : ~(pkgCond[k].pc # "idle" /\ pkgCond[k].p = p)  BY DEF Uploading
<1>4. \A k \in PkgConductors : \A i \in DOMAIN fanout[k] : fanout[k][i].p # p  BY DEF Uploading
<1>5. \A k \in PkgConductors : \A e \in Entries(k) : e.p # p  BY <1>4 DEF Entries
<1>6. QED  BY <1>1, <1>2, <1>3, <1>5 DEF NoConductor, Active, UploadSteps

\* Conductors and queues that are unchanged say the same about p.
LEMMA SameNoConductor ==
    ASSUME UNCHANGED <<pkgCond, fanout>>, NEW p
    PROVE  /\ NoConductor(p)' <=> NoConductor(p)
           /\ \A k : Entries(k)' = Entries(k)
           /\ \A k : \A steps : CondIn(k, p, steps)' <=> CondIn(k, p, steps)
           /\ \A k : Active(k, p)' <=> Active(k, p)
           /\ \A k : LoadEntry(k, p)' <=> LoadEntry(k, p)
BY DEF NoConductor, Entries, CondIn, Active, LoadEntry

\* An upload marks the row UPLOADING.
LEMMA MarkStep ==
    ASSUME PkgInv, NEW u \in PkgReqs, upload_mark(u)
    PROVE  PkgInv'
PROOF
<1>1. PkgTypes /\ InsertsOwn /\ OneRow  BY DEF PkgInv
<1>0. PICK q : q = pkgReq[u].p  OBVIOUS
<1> DEFINE uri == pkgReq[u].from = "uri"
           s == [pkgReq[u] EXCEPT !.pc = "store"]
           c0 == [m |-> "uri", p |-> q, n |-> pkgReq[u].n]
<1>2. pkgReq[u].pc = "mark"  BY DEF upload_mark, ReqAt
<1>3. pkgReq[u] \in UploadReq  BY <1>1, <1>2, ReqFields DEF UploadSteps
<1>4. q \in Pkgs /\ pkgReq[u].n \in Number  BY <1>0, <1>3 DEF UploadReq
<1>5. PkgOk(q) /\ pkg[q].state # "none"  BY <1>0, <1>2, <1>4, Known DEF PkgInv
<1>6. s \in PkgRequest /\ s.pc = "store" /\ s.p = q
  <2>1. s \in UploadReq /\ s.pc = "store" /\ s.p = q  BY <1>0, <1>3 DEF UploadReq
  <2>2. QED  BY <2>1 DEF PkgRequest
<1>7. c0 \in PkgCast /\ c0.p = q /\ c0.m = "uri"  BY <1>4 DEF PkgCast
<1>8. /\ pkg' = IF Live(q) THEN [pkg EXCEPT ![q].onboarding = "UPLOADING"] ELSE pkg
      /\ ReqGoes(u, IF Live(q) /\ ~uri THEN s ELSE NoReq)
      /\ pkgCasts' = IF Live(q) /\ uri THEN pkgCasts \cup {c0} ELSE pkgCasts
      /\ pkgSplit' = IF Uploading(q, u) THEN pkgSplit \cup {q} ELSE pkgSplit
      /\ UNCHANGED <<vnfdRow, flavours, glance, extracted, pkgInst, pkgCond, fanout, uploads, counted,
                     pkgCut, usageRaced>>
  BY <1>0 DEF upload_mark
<1> HIDE DEF s, c0, uri
<1>9. PICK z \in {s, NoReq} : ReqGoes(u, z) /\ (z = s <=> Live(q) /\ ~uri)
  BY <1>6, <1>8, IdleReq
<1>10. z \in PkgRequest /\ (z = s \/ z = NoReq) /\ (z.pc = "idle" \/ z.p = q) /\ z.pc \in {"idle", "store"}
  BY <1>6, <1>9, IdleReq
<1>11. pkgReq' \in [PkgReqs -> PkgRequest] /\ pkgReq'[u] = z /\ \A v \in PkgReqs : v # u => pkgReq'[v] = pkgReq[v]
  BY <1>1, <1>9, <1>10, PkgReqMoves
<1>12. /\ pkg' \in [Pkgs -> PkgRow]
       /\ pkg'[q].state = pkg[q].state
       /\ pkg'[q].onboarding = IF Live(q) THEN "UPLOADING" ELSE pkg[q].onboarding
       /\ \A x \in Pkgs : x # q => pkg'[x] = pkg[x]
  <2>1. CASE Live(q)
    <3>1. pkg' = [pkg EXCEPT ![q].onboarding = "UPLOADING"]  BY <1>8, <2>1
    <3>2. "UPLOADING" \in Onboarding  BY DEF Onboarding
    <3>3. /\ pkg' \in [Pkgs -> PkgRow]
          /\ pkg'[q].state = pkg[q].state /\ pkg'[q].onboarding = "UPLOADING"
          /\ \A x \in Pkgs : x # q => pkg'[x] = pkg[x]
      BY <1>1, <1>4, <3>1, <3>2, OnboardingMoves
    <3>4. QED  BY <2>1, <3>3
  <2>2. CASE ~Live(q)  BY <1>1, <1>8, <2>2, PkgRows
  <2>3. QED  BY <2>1, <2>2
<1>13. PkgTypes'
  <2>1. pkgCasts' \subseteq PkgCast /\ pkgSplit' \subseteq Pkgs  BY <1>1, <1>4, <1>7, <1>8 DEF PkgTypes
  <2>2. QED  BY <1>1, <1>8, <1>11, <1>12, <2>1 DEF PkgTypes
<1>14. InsertsOwn' /\ OneRow'
  <2>1. OwnPackage(z)  BY <1>10 DEF OwnPackage
  <2>2. QED  BY <1>1, <1>8, <1>11, <2>1 DEF InsertsOwn, OneRow
<1>15. Only(q)
  <2>1. \A v \in PkgReqs : \/ pkgReq'[v] = pkgReq[v]
                           \/ /\ pkgReq[v].pc = "idle" \/ pkgReq[v].p = q
                              /\ pkgReq'[v].pc = "idle" \/ pkgReq'[v].p = q
    BY <1>0, <1>10, <1>11
  <2>2. \A c \in PkgCast : c.p # q => (c \in pkgCasts' <=> c \in pkgCasts)  BY <1>7, <1>8
  <2>3. \A k \in PkgConductors : Entries(k)' = Entries(k)  BY <1>8 DEF Entries
  <2>4. pkgSplit \subseteq pkgSplit'  BY <1>8
  <2>5. QED  BY <1>8, <1>12, <2>1, <2>2, <2>3, <2>4 DEF Only
<1>16. ASSUME Live(q), LiveInv(q), ~Uploading(q, u)  PROVE LiveInv(q)'
  <2>1. pkg[q].onboarding = "CREATED" /\ CreatedInv(q) /\ OneUpload(q)
    BY <1>0, <1>2, <1>16 DEF LiveInv, OneUpload
  <2>2. /\ \A v \in PkgReqs : v # u /\ pkgReq[v].pc \in UploadSteps => pkgReq[v].p # q
        /\ NoConductor(q)
    BY <1>16, NotUploading
  <2>3. \A c \in pkgCasts : c.p # q  BY <2>1 DEF OneUpload
  <2>4. pkg'[q].onboarding = "UPLOADING"  BY <1>12, <1>16
  <2>5. \A c \in pkgCasts' : c.p = q => c = c0 /\ uri  BY <1>8, <2>3
  <2>6. \A v \in PkgReqs : UpReq(v, q)' => v = u /\ ~uri
    <3>1. ASSUME NEW v \in PkgReqs, v # u  PROVE ~UpReq(v, q)'
      BY <1>11, <2>2, <3>1 DEF UpReq, UploadSteps
    <3>2. UpReq(u, q)' => ~uri  BY <1>9, <1>11, IdleReq DEF UpReq
    <3>3. QED  BY <3>1, <3>2
  <2>7. \A v \in PkgReqs : ~(pkgReq'[v].pc \in {"mark", "stored"} /\ pkgReq'[v].p = q)
    BY <1>10, <1>11, <2>2 DEF UploadSteps
  <2>8. \A c \in PkgCast : UpCast(c, q)' => c = c0 /\ uri  BY <2>5 DEF UpCast
  <2>9. OneUpload(q)'  BY <1>7, <2>4, <2>5, <2>6, <2>7, <2>8 DEF OneUpload
  <2>10. ~Stored(q)'  BY <1>7, <2>5, <2>7 DEF Stored
  <2>11. UploadingInv(q)'
    <3>1. NoConductor(q)'  BY <1>8, <2>2, SameNoConductor
    <3>2. q \notin glance' /\ q \notin vnfdRow' /\ q \notin flavours'  BY <1>8, <2>1 DEF CreatedInv
    <3>3. QED  BY <2>10, <3>1, <3>2 DEF UploadingInv
  <2>12. QED  BY <2>4, <2>9, <2>11 DEF LiveInv
<1>17. ASSUME GoneInv(q), ~Live(q)  PROVE GoneInv(q)'
  <2>1. pkgReq[u].p # q  BY <1>2, <1>17 DEF GoneInv
  <2>2. QED  BY <1>0, <2>1
<1>18. ASSUME GoneRow(q), ~Live(q)  PROVE GoneRow(q)'
  <2>1. \A k \in PkgConductors : CondIn(k, q, {"onboard", "save"})' <=> CondIn(k, q, {"onboard", "save"})
    BY <1>8 DEF CondIn
  <2>2. QED  BY <1>8, <1>12, <1>18, <2>1 DEF GoneRow
<1>19. PkgOk(q)'
  <2>1. (Live(q)' <=> Live(q)) /\ (q \notin pkgSplit' => q \notin pkgSplit /\ ~Uploading(q, u)) /\ pkgCut' = pkgCut
    BY <1>4, <1>8, <1>12 DEF Live
  <2>2. (pkg[q].state = "deleted" => ~Live(q)) /\ pkg'[q].state = pkg[q].state  BY <1>12 DEF Live
  <2>3. QED  BY <1>5, <1>16, <1>17, <1>18, <2>1, <2>2 DEF PkgOk
<1>20. QED  BY <1>13, <1>14, <1>15, <1>19, OnlyPackage

\* A request on q that goes on touches requests on q only.
LEMMA OnlyRequest ==
    ASSUME NEW u \in PkgReqs, NEW q, NEW z,
           pkgReq[u].pc = "idle" \/ pkgReq[u].p = q, z.pc = "idle" \/ z.p = q,
           pkgReq'[u] = z, \A v \in PkgReqs : v # u => pkgReq'[v] = pkgReq[v]
    PROVE  \A v \in PkgReqs : \/ pkgReq'[v] = pkgReq[v]
                              \/ /\ pkgReq[v].pc = "idle" \/ pkgReq[v].p = q
                                 /\ pkgReq'[v].pc = "idle" \/ pkgReq'[v].p = q
OBVIOUS

\* The CSAR is stored, or the request fails.
LEMMA StoreStep ==
    ASSUME PkgInv, NEW u \in PkgReqs, store_csar(u)
    PROVE  PkgInv'
PROOF
<1>1. PkgTypes /\ InsertsOwn /\ OneRow  BY DEF PkgInv
<1>2. PICK q : q = pkgReq[u].p  OBVIOUS
<1>3. pkgReq[u].pc = "store"  BY DEF store_csar, ReqAt
<1>4. pkgReq[u] \in UploadReq  BY <1>1, <1>3, ReqFields DEF UploadSteps
<1>5. q \in Pkgs  BY <1>2, <1>4 DEF UploadReq
<1>6. PkgOk(q) /\ pkg[q].state # "none"  BY <1>2, <1>3, <1>5, Known DEF PkgInv
<1>7. UpReq(u, q)  BY <1>2, <1>3 DEF UpReq
<1>8. UNCHANGED <<vnfdRow, flavours, extracted, pkgInst, pkgCond, pkgCasts, fanout, uploads, counted,
                  pkgSplit, pkgCut, usageRaced>>
  BY DEF store_csar
<1>9. \A k \in PkgConductors : Entries(k)' = Entries(k)  BY <1>8 DEF Entries
<1>10. ASSUME LiveInv(q), Live(q)
       PROVE  /\ \A v \in PkgReqs : UpReq(v, q) => v = u
              /\ \A c \in pkgCasts : c.p # q
              /\ \A v \in PkgReqs : pkgReq[v].pc = "mark" => pkgReq[v].p # q
              /\ UploadingInv(q) /\ ~Stored(q)
  <2>1. OneUpload(q)  BY <1>10 DEF LiveInv
  <2>2. pkg[q].onboarding = "UPLOADING"  BY <1>7, <2>1 DEF OneUpload
  <2>3. \A v \in PkgReqs : UpReq(v, q) => v = u  BY <1>7, <2>1 DEF OneUpload
  <2>4. \A c \in pkgCasts : c.p # q
    <3> SUFFICES ASSUME NEW c \in pkgCasts, c.p = q  PROVE FALSE
      OBVIOUS
    <3>1. c \in PkgCast  BY <1>1 DEF PkgTypes
    <3>2. c.m \in {"content", "uri"}  BY <2>1, <3>1 DEF OneUpload, PkgCast
    <3>3. UpCast(c, q)  BY <3>2 DEF UpCast
    <3>4. QED  BY <1>7, <2>1, <3>1, <3>3 DEF OneUpload
  <2>5. \A v \in PkgReqs : pkgReq[v].pc = "mark" => pkgReq[v].p # q
    BY <2>1, <2>2 DEF OneUpload
  <2>6. UploadingInv(q)  BY <1>10, <2>2 DEF LiveInv
  <2>7. ~Stored(q)
    <3>1. \A v \in PkgReqs : pkgReq[v].pc = "stored" /\ pkgReq[v].p = q => v = u  BY <2>3 DEF UpReq
    <3>2. QED  BY <1>3, <2>4, <3>1 DEF Stored
  <2>8. QED  BY <2>3, <2>4, <2>5, <2>6, <2>7
<1>11. \A k \in PkgConductors : CondIn(k, q, {"onboard", "save"})' <=> CondIn(k, q, {"onboard", "save"})
  BY <1>8 DEF CondIn
<1>12. ~Live(q) => ~GoneInv(q)  BY <1>2, <1>3 DEF GoneInv
<1>13. CASE /\ q \notin glance
            /\ glance' = glance \cup {q}
            /\ ReqGoes(u, [pkgReq[u] EXCEPT !.pc = "stored"])
            /\ UNCHANGED pkg
  <2> DEFINE s == [pkgReq[u] EXCEPT !.pc = "stored"]
  <2>1. s \in PkgRequest /\ s.pc = "stored" /\ s.p = q
    <3>1. s \in UploadReq /\ s.pc = "stored" /\ s.p = q  BY <1>2, <1>4 DEF UploadReq
    <3>2. QED  BY <3>1 DEF PkgRequest
  <2>2. ReqGoes(u, s)  BY <1>13
  <2> HIDE DEF s
  <2>3. pkgReq' \in [PkgReqs -> PkgRequest] /\ pkgReq'[u] = s /\ \A v \in PkgReqs : v # u => pkgReq'[v] = pkgReq[v]
    BY <1>1, <2>1, <2>2, PkgReqMoves
  <2>4. PkgTypes'
    <3>1. glance' \subseteq Pkgs  BY <1>1, <1>5, <1>13 DEF PkgTypes
    <3>2. QED  BY <1>1, <1>8, <1>13, <2>3, <3>1 DEF PkgTypes
  <2>5. InsertsOwn' /\ OneRow'  BY <1>1, <1>8, <2>1, <2>3 DEF InsertsOwn, OneRow, OwnPackage
  <2>6. Only(q)
    <3>1. \A v \in PkgReqs : \/ pkgReq'[v] = pkgReq[v]
                             \/ /\ pkgReq[v].pc = "idle" \/ pkgReq[v].p = q
                                /\ pkgReq'[v].pc = "idle" \/ pkgReq'[v].p = q
      BY <1>2, <2>1, <2>3, OnlyRequest
    <3>2. QED  BY <1>8, <1>9, <1>13, <3>1 DEF Only
  <2>7. ASSUME LiveInv(q), Live(q)  PROVE LiveInv(q)'
    <3>1. \A v \in PkgReqs : UpReq(v, q)' => v = u  BY <1>10, <2>3, <2>7 DEF UpReq
    <3>2. \A c \in PkgCast : ~UpCast(c, q)'  BY <1>8, <1>10, <2>7 DEF UpCast
    <3>3. OneUpload(q) /\ pkg[q].onboarding = "UPLOADING"  BY <1>7, <2>7 DEF LiveInv, OneUpload
    <3>4. \A v \in PkgReqs : pkgReq'[v].pc = "mark" => pkgReq'[v].p # q  BY <1>10, <2>1, <2>3, <2>7
    <3>5. OneUpload(q)'  BY <1>8, <1>10, <1>13, <2>7, <3>1, <3>2, <3>3, <3>4 DEF OneUpload
    <3>6. Stored(q)'  BY <2>1, <2>3 DEF Stored
    <3>7. NoConductor(q)'  BY <1>8, <1>10, <2>7, SameNoConductor DEF UploadingInv
    <3>8. UploadingInv(q)'  BY <1>8, <1>10, <1>13, <2>7, <3>6, <3>7 DEF UploadingInv
    <3>9. QED  BY <1>13, <3>3, <3>5, <3>8 DEF LiveInv
  <2>8. GoneRow(q) => GoneRow(q)'  BY <1>8, <1>11, <1>13 DEF GoneRow
  <2>9. PkgOk(q)'  BY <1>6, <1>8, <1>12, <1>13, <2>7, <2>8 DEF PkgOk, Live
  <2>10. QED  BY <2>4, <2>5, <2>6, <2>9, OnlyPackage
<1>14. CASE /\ pkg' = IF Live(q) THEN [pkg EXCEPT ![q].onboarding = "CREATED"] ELSE pkg
            /\ ReqGoes(u, NoReq)
            /\ UNCHANGED glance
  <2>1. pkgReq' \in [PkgReqs -> PkgRequest] /\ pkgReq'[u] = NoReq /\ \A v \in PkgReqs : v # u => pkgReq'[v] = pkgReq[v]
    BY <1>1, <1>14, IdleReq, PkgReqMoves
  <2>2. /\ pkg' \in [Pkgs -> PkgRow]
        /\ pkg'[q].state = pkg[q].state
        /\ pkg'[q].onboarding = IF Live(q) THEN "CREATED" ELSE pkg[q].onboarding
        /\ \A x \in Pkgs : x # q => pkg'[x] = pkg[x]
    <3>1. CASE Live(q)
      <4>1. pkg' = [pkg EXCEPT ![q].onboarding = "CREATED"]  BY <1>14, <3>1
      <4>2. "CREATED" \in Onboarding  BY DEF Onboarding
      <4>3. /\ pkg' \in [Pkgs -> PkgRow]
            /\ pkg'[q].state = pkg[q].state /\ pkg'[q].onboarding = "CREATED"
            /\ \A x \in Pkgs : x # q => pkg'[x] = pkg[x]
        BY <1>1, <1>5, <4>1, <4>2, OnboardingMoves
      <4>4. QED  BY <3>1, <4>3
    <3>2. CASE ~Live(q)  BY <1>1, <1>14, <3>2, PkgRows
    <3>3. QED  BY <3>1, <3>2
  <2>3. PkgTypes'  BY <1>1, <1>8, <1>14, <2>1, <2>2 DEF PkgTypes
  <2>4. InsertsOwn' /\ OneRow'  BY <1>1, <1>8, <2>1, IdleReq DEF InsertsOwn, OneRow, OwnPackage
  <2>5. Only(q)
    <3>1. \A v \in PkgReqs : \/ pkgReq'[v] = pkgReq[v]
                             \/ /\ pkgReq[v].pc = "idle" \/ pkgReq[v].p = q
                                /\ pkgReq'[v].pc = "idle" \/ pkgReq'[v].p = q
      BY <1>2, <2>1, IdleReq, OnlyRequest
    <3>2. QED  BY <1>8, <1>9, <1>14, <2>2, <3>1 DEF Only
  <2>6. ASSUME LiveInv(q), Live(q)  PROVE LiveInv(q)'
    <3>1. pkg'[q].onboarding = "CREATED"  BY <2>2, <2>6
    <3>2. \A v \in PkgReqs : ~UpReq(v, q)'  BY <1>10, <2>1, <2>6, IdleReq DEF UpReq
    <3>3. \A c \in PkgCast : ~UpCast(c, q)'  BY <1>8, <1>10, <2>6 DEF UpCast
    <3>4. OneUpload(q)'  BY <1>8, <1>10, <2>6, <3>1, <3>2, <3>3 DEF OneUpload
    <3>5. CreatedInv(q)'
      <4>1. \A k \in PkgConductors : ~CondIn(k, q, {"onboard", "save"})
        BY <1>10, <2>6 DEF UploadingInv, NoConductor, Active, CondIn
      <4>2. QED  BY <1>8, <1>10, <1>11, <1>14, <2>6, <4>1 DEF CreatedInv, UploadingInv
    <3>6. QED  BY <3>1, <3>4, <3>5 DEF LiveInv
  <2>7. ~Live(q) /\ GoneRow(q) => GoneRow(q)'  BY <1>8, <1>11, <2>2 DEF GoneRow
  <2>8. PkgOk(q)'  BY <1>6, <1>8, <1>12, <2>2, <2>6, <2>7 DEF PkgOk, Live
  <2>9. QED  BY <2>3, <2>4, <2>5, <2>8, OnlyPackage
<1>15. QED  BY <1>2, <1>13, <1>14 DEF store_csar

\* The location is saved and the upload is cast to one conductor.
LEMMA StoredStep ==
    ASSUME PkgInv, NEW u \in PkgReqs, upload_stored(u)
    PROVE  PkgInv'
PROOF
<1>1. PkgTypes /\ InsertsOwn /\ OneRow  BY DEF PkgInv
<1>2. PICK q : q = pkgReq[u].p  OBVIOUS
<1>3. pkgReq[u].pc = "stored" /\ ReqGoes(u, NoReq)  BY DEF upload_stored, ReqAt
<1>4. pkgReq[u] \in UploadReq  BY <1>1, <1>3, ReqFields DEF UploadSteps
<1>5. q \in Pkgs /\ pkgReq[u].n \in Number  BY <1>2, <1>4 DEF UploadReq
<1>6. PkgOk(q) /\ pkg[q].state # "none"  BY <1>2, <1>3, <1>5, Known DEF PkgInv
<1>7. UpReq(u, q)  BY <1>2, <1>3 DEF UpReq
<1>8. PICK c0 : c0 = [m |-> "content", p |-> q, n |-> pkgReq[u].n]  OBVIOUS
<1>9. c0 \in PkgCast /\ c0.p = q /\ c0.m = "content"  BY <1>5, <1>8 DEF PkgCast
<1>10. /\ pkgCasts' = IF Live(q) THEN pkgCasts \cup {c0} ELSE pkgCasts
       /\ UNCHANGED <<pkg, vnfdRow, flavours, glance, extracted, pkgInst, pkgCond, fanout, uploads, counted,
                      pkgSplit, pkgCut, usageRaced>>
  BY <1>2, <1>8 DEF upload_stored
<1>11. \A k \in PkgConductors : Entries(k)' = Entries(k)  BY <1>10 DEF Entries
<1>12. pkgReq' \in [PkgReqs -> PkgRequest] /\ pkgReq'[u] = NoReq /\ \A v \in PkgReqs : v # u => pkgReq'[v] = pkgReq[v]
  BY <1>1, <1>3, IdleReq, PkgReqMoves
<1>13. PkgTypes'
  <2>1. pkgCasts' \subseteq PkgCast  BY <1>1, <1>9, <1>10 DEF PkgTypes
  <2>2. QED  BY <1>1, <1>10, <1>12, <2>1 DEF PkgTypes
<1>14. InsertsOwn' /\ OneRow'  BY <1>1, <1>10, <1>12, IdleReq DEF InsertsOwn, OneRow, OwnPackage
<1>15. Only(q)
  <2>1. \A v \in PkgReqs : \/ pkgReq'[v] = pkgReq[v]
                           \/ /\ pkgReq[v].pc = "idle" \/ pkgReq[v].p = q
                              /\ pkgReq'[v].pc = "idle" \/ pkgReq'[v].p = q
    BY <1>2, <1>12, IdleReq, OnlyRequest
  <2>2. \A c \in PkgCast : c.p # q => (c \in pkgCasts' <=> c \in pkgCasts)  BY <1>9, <1>10
  <2>3. QED  BY <1>10, <1>11, <2>1, <2>2 DEF Only
<1>16. ASSUME LiveInv(q), Live(q)  PROVE LiveInv(q)'
  <2>1. OneUpload(q) /\ pkg[q].onboarding = "UPLOADING"  BY <1>7, <1>16 DEF LiveInv, OneUpload
  <2>2. \A v \in PkgReqs : ~UpReq(v, q)'
    <3>1. \A v \in PkgReqs : UpReq(v, q) => v = u  BY <1>7, <2>1 DEF OneUpload
    <3>2. QED  BY <1>12, <3>1, IdleReq DEF UpReq
  <2>3. \A c \in pkgCasts : c.p # q
    <3> SUFFICES ASSUME NEW c \in pkgCasts, c.p = q  PROVE FALSE
      OBVIOUS
    <3>1. c \in PkgCast  BY <1>1 DEF PkgTypes
    <3>2. c.m \in {"content", "uri"}  BY <2>1, <3>1 DEF OneUpload, PkgCast
    <3>3. UpCast(c, q)  BY <3>2 DEF UpCast
    <3>4. QED  BY <1>7, <2>1, <3>1, <3>3 DEF OneUpload
  <2>4. \A c \in pkgCasts' : c.p = q => c = c0  BY <1>10, <2>3
  <2>5. \A c \in PkgCast : UpCast(c, q)' => c = c0  BY <2>4 DEF UpCast
  <2>6. \A v \in PkgReqs : pkgReq'[v].pc = "mark" => pkgReq'[v].p # q  BY <1>12, <2>1, IdleReq DEF OneUpload
  <2>7. OneUpload(q)'  BY <1>9, <1>10, <2>1, <2>2, <2>4, <2>5, <2>6 DEF OneUpload
  <2>8. UploadingInv(q)  BY <1>16, <2>1 DEF LiveInv
  <2>9. q \in glance
    <3>1. Stored(q)  BY <1>2, <1>3 DEF Stored
    <3>2. QED  BY <2>8, <3>1 DEF UploadingInv
  <2>10. Stored(q)'  BY <1>9, <1>10, <1>16 DEF Stored
  <2>11. NoConductor(q)'  BY <1>10, <2>8, SameNoConductor DEF UploadingInv
  <2>12. UploadingInv(q)'  BY <1>10, <2>8, <2>9, <2>10, <2>11 DEF UploadingInv
  <2>13. QED  BY <1>10, <2>1, <2>7, <2>12 DEF LiveInv
<1>17. \A k \in PkgConductors : CondIn(k, q, {"onboard", "save"})' <=> CondIn(k, q, {"onboard", "save"})
  BY <1>10 DEF CondIn
<1>18. GoneRow(q) => GoneRow(q)'  BY <1>10, <1>17 DEF GoneRow
<1>19. ~GoneInv(q)  BY <1>2, <1>3 DEF GoneInv
<1>20. PkgOk(q)'  BY <1>6, <1>10, <1>16, <1>18, <1>19 DEF PkgOk, Live
<1>21. QED  BY <1>13, <1>14, <1>15, <1>20, OnlyPackage

\* delete: the row is destroyed and the conductor told.
LEMMA DestroyStep ==
    ASSUME PkgInv, NEW u \in PkgReqs, pkg_destroy(u)
    PROVE  PkgInv'
PROOF
<1>1. PkgTypes /\ InsertsOwn /\ OneRow  BY DEF PkgInv
<1>2. PICK q : q = pkgReq[u].p  OBVIOUS
<1>3. pkgReq[u].pc = "destroy" /\ ReqGoes(u, NoReq)  BY DEF pkg_destroy, ReqAt
<1>4. pkgReq[u] \in DestroyReq  BY <1>1, <1>3, ReqFields
<1>5. q \in Pkgs  BY <1>2, <1>4 DEF DestroyReq
<1>6. PkgOk(q) /\ pkg[q].state \in {"live", "deleted"}
  <2>1. PkgOk(q) /\ pkg[q].state # "none"  BY <1>2, <1>3, <1>5, Known DEF PkgInv
  <2>2. pkg[q] \in PkgRow  BY <1>1, <1>5, PkgRows
  <2>3. QED  BY <2>1, <2>2 DEF PkgRow
<1>7. PICK c0 : c0 = [m |-> "delete", p |-> q, n |-> 0]  OBVIOUS
<1>8. c0 \in PkgCast /\ c0.p = q /\ c0.m = "delete"
  <2>1. 0 \in Number  BY VnfPackagesAssumption DEF Number
  <2>2. QED  BY <1>5, <1>7, <2>1 DEF PkgCast
<1>9. /\ pkg' = [pkg EXCEPT ![q].state = "deleted"]
      /\ vnfdRow' = vnfdRow \ {q}
      /\ flavours' = flavours \ {q}
      /\ pkgCasts' = IF pkgReq[u].seen = "ONBOARDED" THEN pkgCasts \cup {c0} ELSE pkgCasts
      /\ pkgCut' = IF \/ pkg[q].onboarding # pkgReq[u].seen
                      \/ \E v \in PkgReqs : pkgReq[v].pc \in {"mark", "store", "stored"} /\ pkgReq[v].p = q
                      \/ \E k \in PkgConductors : pkgCond[k].pc \in {"onboard", "save"} /\ pkgCond[k].p = q
                   THEN pkgCut \cup {q} ELSE pkgCut
      /\ UNCHANGED <<glance, extracted, pkgInst, pkgCond, fanout, uploads, counted, pkgSplit, usageRaced>>
  BY <1>2, <1>7 DEF pkg_destroy
<1>10. pkgReq' \in [PkgReqs -> PkgRequest] /\ pkgReq'[u] = NoReq /\ \A v \in PkgReqs : v # u => pkgReq'[v] = pkgReq[v]
  BY <1>1, <1>3, IdleReq, PkgReqMoves
<1>11. /\ pkg' \in [Pkgs -> PkgRow]
       /\ pkg'[q].state = "deleted" /\ pkg'[q].onboarding = pkg[q].onboarding
       /\ \A x \in Pkgs : x # q => pkg'[x] = pkg[x]
  BY <1>1, <1>5, <1>9, StateMoves
<1>12. PkgTypes'
  <2>1. vnfdRow' \subseteq Pkgs /\ flavours' \subseteq Pkgs /\ pkgCasts' \subseteq PkgCast /\ pkgCut' \subseteq Pkgs
    BY <1>1, <1>5, <1>8, <1>9 DEF PkgTypes
  <2>2. QED  BY <1>1, <1>9, <1>10, <1>11, <2>1 DEF PkgTypes
<1>13. InsertsOwn' /\ OneRow'  BY <1>1, <1>9, <1>10, IdleReq DEF InsertsOwn, OneRow, OwnPackage
<1>14. Only(q)
  <2>1. \A v \in PkgReqs : \/ pkgReq'[v] = pkgReq[v]
                           \/ /\ pkgReq[v].pc = "idle" \/ pkgReq[v].p = q
                              /\ pkgReq'[v].pc = "idle" \/ pkgReq'[v].p = q
    BY <1>2, <1>10, IdleReq, OnlyRequest
  <2>2. \A c \in PkgCast : c.p # q => (c \in pkgCasts' <=> c \in pkgCasts)  BY <1>8, <1>9
  <2>3. \A k \in PkgConductors : Entries(k)' = Entries(k)  BY <1>9 DEF Entries
  <2>4. pkgCut \subseteq pkgCut'  BY <1>9
  <2>5. QED  BY <1>9, <1>11, <2>1, <2>2, <2>3, <2>4 DEF Only
<1>15. \A k \in PkgConductors : CondIn(k, q, {"onboard", "save"})' <=> CondIn(k, q, {"onboard", "save"})
  BY <1>9 DEF CondIn
<1>16. q \notin vnfdRow'  BY <1>9
<1>17. ASSUME q \notin pkgSplit  PROVE GoneRow(q)'
  <2>1. CASE Live(q)
    <3>1. LiveInv(q)  BY <1>6, <1>17, <2>1 DEF PkgOk
    <3>2. pkg[q].onboarding = "ONBOARDED" => \A k \in PkgConductors : ~CondIn(k, q, {"onboard", "save"})
      BY <3>1 DEF LiveInv, OnboardedInv, Active, CondIn
    <3>3. QED  BY <1>11, <1>15, <1>16, <3>2 DEF GoneRow
  <2>2. CASE ~Live(q)
    <3>1. GoneRow(q)  BY <1>6, <1>17, <2>2 DEF PkgOk, Live
    <3>2. QED  BY <1>11, <1>15, <1>16, <3>1 DEF GoneRow
  <2>3. QED  BY <2>1, <2>2
<1>18. ASSUME q \notin pkgSplit, q \notin pkgCut'  PROVE GoneInv(q)'
  <2>1. /\ pkg[q].onboarding = pkgReq[u].seen
        /\ \A v \in PkgReqs : pkgReq[v].pc \in {"mark", "store", "stored"} => pkgReq[v].p # q
        /\ \A k \in PkgConductors : ~CondIn(k, q, {"onboard", "save"})
        /\ q \notin pkgCut
    BY <1>9, <1>18 DEF CondIn
  <2>2. \A v \in PkgReqs : pkgReq'[v].pc \in {"mark", "store", "stored"} => pkgReq'[v].p # q
    BY <1>10, <2>1, IdleReq
  <2>3. pkgCasts \subseteq pkgCasts'  BY <1>9
  <2>4. \A k \in PkgConductors : LoadEntry(k, q) \/ Active(k, q) => (LoadEntry(k, q) \/ Active(k, q))'
    BY <1>9, SameNoConductor
  <2>5. ASSUME q \in glance
        PROVE  \/ \E c \in pkgCasts' : c.p = q /\ c.m \in {"content", "delete"}
               \/ \E k \in PkgConductors : LoadEntry(k, q) \/ Active(k, q)
    <3>1. CASE ~Live(q)
      <4>1. GoneInv(q)  BY <1>6, <1>18, <2>1, <3>1 DEF PkgOk, Live
      <4>2. QED  BY <2>3, <2>5, <4>1 DEF GoneInv
    <3>2. CASE Live(q)
      <4>1. LiveInv(q)  BY <1>6, <1>18, <3>2 DEF PkgOk
      <4>2. CASE pkg[q].onboarding = "CREATED"
        BY <2>5, <4>1, <4>2 DEF LiveInv, CreatedInv
      <4>3. CASE pkg[q].onboarding = "UPLOADING"
        <5>1. Stored(q)  BY <2>5, <4>1, <4>3 DEF LiveInv, UploadingInv
        <5>2. QED  BY <2>1, <2>3, <5>1 DEF Stored
      <4>4. CASE pkg[q].onboarding = "PROCESSING"
        BY <4>1, <4>4 DEF LiveInv, ProcessingInv
      <4>5. CASE pkg[q].onboarding = "ONBOARDED"
        <5>1. c0 \in pkgCasts'  BY <1>9, <2>1, <4>5
        <5>2. QED  BY <1>8, <5>1
      <4>6. pkg[q].onboarding \in Onboarding  BY <1>1, <1>5, PkgRows DEF PkgRow, Onboarding
      <4>7. QED  BY <4>2, <4>3, <4>4, <4>5, <4>6 DEF Onboarding
    <3>3. QED  BY <3>1, <3>2
  <2>6. QED  BY <1>9, <1>15, <1>16, <2>1, <2>2, <2>4, <2>5 DEF GoneInv
<1>19. PkgOk(q)'  BY <1>9, <1>11, <1>17, <1>18 DEF PkgOk, Live
<1>20. QED  BY <1>12, <1>13, <1>14, <1>19, OnlyPackage

\* A conductor takes the upload: the row is PROCESSING and every conductor is told.
LEMMA LoadingBegins ==
    ASSUME PkgTypes, NEW q \in Pkgs, Live(q), LiveInv(q), NEW c \in pkgCasts, UpCast(c, q),
           pkgCasts' = pkgCasts \ {c}, NEW n \in Number,
           pkg'[q].onboarding = "PROCESSING", pkg'[q].downloading = 0,
           \A k \in PkgConductors : Entries(k)' = Entries(k) \cup {[m |-> "load", p |-> q, n |-> n]},
           q \in glance',
           UNCHANGED <<vnfdRow, flavours, pkgReq, pkgCond>>
    PROVE  LiveInv(q)'
PROOF
<1>1. PICK e : e = [m |-> "load", p |-> q, n |-> n]  OBVIOUS
<1>2. e.m = "load" /\ e.p = q /\ e.n = n /\ \A k \in PkgConductors : Entries(k)' = Entries(k) \cup {e}
  BY <1>1
<1>3. OneUpload(q)  BY DEF LiveInv
<1>4. c \in PkgCast /\ c.p = q  BY DEF PkgTypes, UpCast
<1>5. pkg[q].onboarding = "UPLOADING"  BY <1>3, <1>4 DEF OneUpload
<1>6. \A x \in pkgCasts : x.p = q => x = c
  <2> SUFFICES ASSUME NEW x \in pkgCasts, x.p = q  PROVE x = c
    OBVIOUS
  <2>1. x \in PkgCast  BY DEF PkgTypes
  <2>2. x.m \in {"content", "uri"}  BY <1>3, <2>1 DEF OneUpload, PkgCast
  <2>3. UpCast(x, q)  BY <2>2 DEF UpCast
  <2>4. QED  BY <1>3, <1>4, <2>1, <2>3 DEF OneUpload
<1>7. \A x \in pkgCasts' : x.p # q  BY <1>6
<1>8. \A u \in PkgReqs : ~UpReq(u, q)  BY <1>3, <1>4 DEF OneUpload
<1>9. \A u \in PkgReqs : ~(pkgReq[u].pc = "mark" /\ pkgReq[u].p = q)  BY <1>3, <1>5 DEF OneUpload
<1>10. OneUpload(q)'
  <2>1. \A u \in PkgReqs : ~UpReq(u, q)'  BY <1>8 DEF UpReq
  <2>2. \A x \in PkgCast : ~UpCast(x, q)'  BY <1>7 DEF UpCast
  <2>3. QED  BY <1>7, <1>9, <2>1, <2>2 DEF OneUpload
<1>11. NoConductor(q) /\ q \notin vnfdRow /\ q \notin flavours  BY <1>5 DEF LiveInv, UploadingInv
<1>12. \A k \in PkgConductors : ~Active(k, q)  BY <1>11 DEF NoConductor
<1>13. \A k \in PkgConductors : \A steps : "idle" \notin steps => ~CondIn(k, q, steps)'
  BY <1>12 DEF Active, CondIn
<1>14. \A k \in PkgConductors : \A x \in Entries(k)' : x.p = q => x = e
  BY <1>2, <1>11 DEF NoConductor
<1>15. ProcessingInv(q)'
  <2>1. OnlyLoads(q)'  BY <1>2, <1>14 DEF OnlyLoads
  <2>2. \A k \in PkgConductors : /\ ~CondIn(k, q, {"load", "count"})'
                                 /\ ~CondIn(k, q, {"onboard", "save"})'
                                 /\ ~CondIn(k, q, {"save"})' /\ ~CondIn(k, q, {"check"})'
                                 /\ ~CondIn(k, q, {"load", "count", "revert"})'
    BY <1>13
  <2>3. \A i \in Number : Loading(q, i)' => i = n  BY <1>2, <1>14, <2>2 DEF Loading
  <2>4. \A k \in PkgConductors : LoadEntry(k, q)'  BY <1>2 DEF LoadEntry
  <2>5. PkgConductors # {}  BY VnfPackagesAssumption
  <2>6. Racing(q)'
    <3>1. Busy(q)' = {}  BY <2>2 DEF Busy
    <3>2. pkg'[q].downloading = Cardinality(Busy(q)')  BY <3>1, FS_EmptySet
    <3>3. QED  BY <2>2, <3>2 DEF Racing
  <2>7. q \notin vnfdRow' /\ q \notin flavours'  BY <1>11
  <2>8. QED  BY <2>1, <2>2, <2>3, <2>4, <2>5, <2>6, <2>7 DEF ProcessingInv
<1>16. QED  BY <1>10, <1>15 DEF LiveInv

\* What both handlers of an upload do with the row and the queues ...
LEMMA UploadCastStep ==
    ASSUME PkgInv, NEW c \in pkgCasts, conductor_upload_content(c) \/ conductor_upload_from_uri(c), Processing(c.p, c.n),
           c.m = "content" => Live(c.p) \/ c.p \notin glance',
           c.p \in glance' => c.p \in glance \/ Live(c.p),
           c.m = "uri" /\ Live(c.p) => c.p \in glance',
           \A x \in Pkgs : x # c.p => (x \in glance' <=> x \in glance),
           c.m = "content" /\ Live(c.p) => glance' = glance, glance' \subseteq Pkgs,
           UNCHANGED flavours
    PROVE  PkgInv'
PROOF
<1>1. PkgTypes /\ InsertsOwn /\ OneRow  BY DEF PkgInv
<1>2. PICK q : q = c.p  OBVIOUS
<1>3. PICK n : n = c.n  OBVIOUS
<1>4. c \in PkgCast /\ q \in Pkgs /\ n \in Number /\ PkgOk(q) /\ pkg[q].state # "none"
  BY <1>2, <1>3, Known DEF PkgInv
<1>5. /\ c.m \in {"content", "uri"}
      /\ pkgCasts' = pkgCasts \ {c}
      /\ UNCHANGED <<vnfdRow, extracted, pkgInst, pkgReq, pkgCond, uploads, counted, pkgSplit, pkgCut, usageRaced>>
  BY DEF conductor_upload_content, conductor_upload_from_uri
<1>6. /\ pkg' \in [Pkgs -> PkgRow]
      /\ pkg'[q].state = pkg[q].state
      /\ ~Live(q) => pkg'[q].onboarding = pkg[q].onboarding
      /\ Live(q) => pkg'[q].onboarding = "PROCESSING" /\ pkg'[q].downloading = 0
      /\ \A x \in Pkgs : x # q => pkg'[x] = pkg[x]
  <2>1. CASE Live(q)
    <3>1. pkg' = [pkg EXCEPT ![q].onboarding = "PROCESSING", ![q].downloading = 0]
      BY <1>2, <2>1 DEF Processing
    <3>2. QED  BY <1>1, <1>4, <2>1, <3>1, ProcessingMoves
  <2>2. CASE ~Live(q)
    <3>1. UNCHANGED pkg  BY <1>2, <2>2 DEF Processing
    <3>2. QED  BY <1>1, <2>2, <3>1, PkgRows
  <2>3. QED  BY <2>1, <2>2
<1>7. PICK m \in {"load", "delete"} : Fanout(m, q, n) /\ (m = "load" <=> Live(q))
  BY <1>2, <1>3 DEF Processing
<1>8. PICK e : e = [m |-> m, p |-> q, n |-> n]  OBVIOUS
<1>9. /\ fanout' \in [PkgConductors -> Seq(FanCast)]
      /\ \A k \in PkgConductors : Entries(k)' = Entries(k) \cup {e}
      /\ e.m = m /\ e.p = q /\ e.n = n
  BY <1>1, <1>4, <1>7, <1>8, FanoutMoves
<1>10. PkgTypes'
  <2>1. pkgCasts' \subseteq PkgCast  BY <1>1, <1>5 DEF PkgTypes
  <2>2. QED  BY <1>1, <1>5, <1>6, <1>9, <2>1 DEF PkgTypes
<1>11. InsertsOwn' /\ OneRow'  BY <1>1, <1>5 DEF InsertsOwn, OneRow
<1>12. Only(q)
  <2>1. \A x \in PkgCast : x.p # q => (x \in pkgCasts' <=> x \in pkgCasts)  BY <1>2, <1>5
  <2>2. \A x \in Pkgs : x # q => (x \in glance' <=> x \in glance)  BY <1>2
  <2>3. \A k \in PkgConductors : \A x \in FanCast : x.p # q => (x \in Entries(k)' <=> x \in Entries(k))  BY <1>9
  <2>4. QED  BY <1>5, <1>6, <2>1, <2>2, <2>3 DEF Only
<1>13. UpCast(c, q)  BY <1>2, <1>5 DEF UpCast
<1>14. ASSUME Live(q), LiveInv(q)  PROVE LiveInv(q)'
  <2>1. q \in glance'
    <3>1. CASE c.m = "content"
      <4>1. Stored(q)  BY <1>2, <3>1 DEF Stored
      <4>2. pkg[q].onboarding = "UPLOADING"  BY <1>2, <1>14 DEF LiveInv, OneUpload
      <4>3. q \in glance  BY <1>14, <4>1, <4>2 DEF LiveInv, UploadingInv
      <4>4. QED  BY <1>2, <1>14, <3>1, <4>3
    <3>2. CASE c.m = "uri"  BY <1>2, <1>14, <3>2
    <3>3. QED  BY <1>5, <3>1, <3>2
  <2>2. \A k \in PkgConductors : Entries(k)' = Entries(k) \cup {[m |-> "load", p |-> q, n |-> n]}
    BY <1>7, <1>8, <1>9, <1>14
  <2>3. pkg'[q].onboarding = "PROCESSING" /\ pkg'[q].downloading = 0  BY <1>6, <1>14
  <2>4. QED  BY <1>1, <1>4, <1>5, <1>13, <1>14, <2>1, <2>2, <2>3, LoadingBegins
<1>15. \A k \in PkgConductors : CondIn(k, q, {"onboard", "save"})' <=> CondIn(k, q, {"onboard", "save"})
  BY <1>5 DEF CondIn
<1>16. ~Live(q) /\ GoneRow(q) => GoneRow(q)'  BY <1>5, <1>6, <1>15 DEF GoneRow
<1>17. ASSUME ~Live(q), GoneInv(q)  PROVE GoneInv(q)'
  <2>1. q \in glance' => q \in glance /\ c.m # "content"  BY <1>2, <1>17
  <2>2. \A k \in PkgConductors : (LoadEntry(k, q) => LoadEntry(k, q)') /\ (Active(k, q) => Active(k, q)')
    BY <1>5, <1>9 DEF LoadEntry, Active
  <2>3. \A x \in pkgCasts : x.m \in {"content", "delete"} /\ c.m # "content" => x \in pkgCasts'
    BY <1>5
  <2>4. QED  BY <1>5, <1>15, <1>17, <2>1, <2>2, <2>3 DEF GoneInv
<1>18. PkgOk(q)'  BY <1>4, <1>5, <1>6, <1>14, <1>16, <1>17 DEF PkgOk, Live
<1>19. QED  BY <1>10, <1>11, <1>12, <1>18, OnlyPackage

\* ... from the content in the store ...
LEMMA UploadContentStep ==
    ASSUME PkgInv, NEW c \in pkgCasts, conductor_upload_content(c)
    PROVE  PkgInv'
PROOF
<1>1. /\ c.m = "content" /\ Processing(c.p, c.n)
      /\ glance' = IF Live(c.p) THEN glance ELSE glance \ {c.p}
      /\ UNCHANGED flavours
  BY DEF conductor_upload_content
<1>2. glance \subseteq Pkgs  BY DEF PkgInv, PkgTypes
<1>3. QED  BY <1>1, <1>2, UploadCastStep

\* ... and from a URI.
LEMMA UploadUriStep ==
    ASSUME PkgInv, NEW c \in pkgCasts, conductor_upload_from_uri(c)
    PROVE  PkgInv'
PROOF
<1>1. PkgTypes /\ InsertsOwn /\ OneRow  BY DEF PkgInv
<1>2. /\ c.m = "uri" /\ pkgCasts' = pkgCasts \ {c}
      /\ UNCHANGED <<vnfdRow, extracted, pkgInst, pkgReq, pkgCond, uploads, counted, pkgSplit, pkgCut, usageRaced>>
  BY DEF conductor_upload_from_uri
<1>3. PICK q : q = c.p  OBVIOUS
<1>4. c \in PkgCast /\ q \in Pkgs /\ PkgOk(q) /\ pkg[q].state # "none"
  BY <1>3, Known DEF PkgInv
<1>5. CASE /\ c.p \notin glance
           /\ glance' = IF Live(c.p) THEN glance \cup {c.p} ELSE glance
           /\ Processing(c.p, c.n)
           /\ UNCHANGED flavours
  <2>1. glance' \subseteq Pkgs  BY <1>1, <1>3, <1>4, <1>5 DEF PkgTypes
  <2>2. QED  BY <1>2, <1>5, <2>1, UploadCastStep
<1>6. CASE /\ pkg' = IF Live(c.p) THEN [pkg EXCEPT ![c.p].onboarding = "CREATED"] ELSE pkg
           /\ flavours' = flavours \ {c.p}
           /\ UNCHANGED <<glance, fanout>>
  <2>1. /\ pkg' \in [Pkgs -> PkgRow]
        /\ pkg'[q].state = pkg[q].state
        /\ pkg'[q].onboarding = IF Live(q) THEN "CREATED" ELSE pkg[q].onboarding
        /\ \A x \in Pkgs : x # q => pkg'[x] = pkg[x]
    <3>1. CASE Live(q)
      <4>1. pkg' = [pkg EXCEPT ![q].onboarding = "CREATED"]  BY <1>3, <1>6, <3>1
      <4>2. "CREATED" \in Onboarding  BY DEF Onboarding
      <4>3. /\ pkg' \in [Pkgs -> PkgRow]
            /\ pkg'[q].state = pkg[q].state /\ pkg'[q].onboarding = "CREATED"
            /\ \A x \in Pkgs : x # q => pkg'[x] = pkg[x]
        BY <1>1, <1>4, <4>1, <4>2, OnboardingMoves
      <4>4. QED  BY <3>1, <4>3
    <3>2. CASE ~Live(q)  BY <1>1, <1>3, <1>6, <3>2, PkgRows
    <3>3. QED  BY <3>1, <3>2
  <2>2. PkgTypes'
    <3>1. flavours' \subseteq Pkgs /\ pkgCasts' \subseteq PkgCast  BY <1>1, <1>2, <1>6 DEF PkgTypes
    <3>2. QED  BY <1>1, <1>2, <1>6, <2>1, <3>1 DEF PkgTypes
  <2>3. InsertsOwn' /\ OneRow'  BY <1>1, <1>2 DEF InsertsOwn, OneRow
  <2>4. \A k \in PkgConductors : Entries(k)' = Entries(k)  BY <1>6 DEF Entries
  <2>5. Only(q)
    <3>1. \A x \in PkgCast : x.p # q => (x \in pkgCasts' <=> x \in pkgCasts)  BY <1>2, <1>3
    <3>2. \A x \in Pkgs : x # q => (x \in flavours' <=> x \in flavours)  BY <1>3, <1>6
    <3>3. QED  BY <1>2, <1>6, <2>1, <2>4, <3>1, <3>2 DEF Only
  <2>6. \A k \in PkgConductors : CondIn(k, q, {"onboard", "save"})' <=> CondIn(k, q, {"onboard", "save"})
    BY <1>2 DEF CondIn
  <2>7. ASSUME Live(q), LiveInv(q)  PROVE LiveInv(q)'
    <3>1. OneUpload(q) /\ UpCast(c, q)  BY <1>2, <1>3, <2>7 DEF LiveInv, UpCast
    <3>2. pkg[q].onboarding = "UPLOADING"  BY <1>3, <3>1 DEF OneUpload
    <3>3. \A x \in pkgCasts : x.p = q => x = c
      <4> SUFFICES ASSUME NEW x \in pkgCasts, x.p = q  PROVE x = c
        OBVIOUS
      <4>1. x \in PkgCast  BY <1>1 DEF PkgTypes
      <4>2. x.m \in {"content", "uri"}  BY <3>1, <4>1 DEF OneUpload, PkgCast
      <4>3. UpCast(x, q)  BY <4>2 DEF UpCast
      <4>4. QED  BY <1>4, <3>1, <4>1, <4>3 DEF OneUpload
    <3>4. \A u \in PkgReqs : ~UpReq(u, q)  BY <1>4, <3>1 DEF OneUpload
    <3>5. UploadingInv(q)  BY <2>7, <3>2 DEF LiveInv
    <3>6. q \notin glance
      <4>1. ~Stored(q)
        <5>1. \A u \in PkgReqs : ~(pkgReq[u].pc = "stored" /\ pkgReq[u].p = q)  BY <3>4 DEF UpReq
        <5>2. \A x \in pkgCasts : ~(x.m = "content" /\ x.p = q)  BY <1>2, <3>3
        <5>3. QED  BY <5>1, <5>2 DEF Stored
      <4>2. QED  BY <3>5, <4>1 DEF UploadingInv
    <3>7. OneUpload(q)'
      <4>1. \A x \in pkgCasts' : x.p # q  BY <1>2, <3>3
      <4>2. \A u \in PkgReqs : ~UpReq(u, q)'  BY <1>2, <3>4 DEF UpReq
      <4>3. \A x \in PkgCast : ~UpCast(x, q)'  BY <4>1 DEF UpCast
      <4>4. pkg'[q].onboarding = "CREATED"  BY <2>1, <2>7
      <4>5. QED  BY <4>1, <4>2, <4>3, <4>4 DEF OneUpload
    <3>8. CreatedInv(q)'
      <4>1. \A k \in PkgConductors : ~CondIn(k, q, {"onboard", "save"})
        BY <3>5 DEF UploadingInv, NoConductor, Active, CondIn
      <4>2. QED  BY <1>2, <1>6, <2>6, <3>5, <3>6, <4>1 DEF CreatedInv, UploadingInv
    <3>9. QED  BY <2>1, <2>7, <3>7, <3>8 DEF LiveInv
  <2>8. ~Live(q) /\ GoneRow(q) => GoneRow(q)'  BY <1>2, <2>1, <2>6 DEF GoneRow
  <2>9. ASSUME ~Live(q), GoneInv(q)  PROVE GoneInv(q)'
    <3>1. \A k \in PkgConductors : (LoadEntry(k, q) => LoadEntry(k, q)') /\ (Active(k, q) => Active(k, q)')
      BY <1>2, <2>4 DEF LoadEntry, Active
    <3>2. \A x \in pkgCasts : x.m \in {"content", "delete"} => x \in pkgCasts'  BY <1>2
    <3>3. QED  BY <1>2, <1>6, <2>6, <2>9, <3>1, <3>2 DEF GoneInv
  <2>10. PkgOk(q)'  BY <1>2, <1>4, <2>1, <2>7, <2>8, <2>9 DEF PkgOk, Live
  <2>11. QED  BY <2>2, <2>3, <2>5, <2>10, OnlyPackage
<1>7. QED  BY <1>5, <1>6 DEF conductor_upload_from_uri

\* delete_vnf_package: a conductor deletes the CSAR and tells all of them.
LEMMA DeletePkgStep ==
    ASSUME PkgInv, NEW c \in pkgCasts, conductor_delete(c)
    PROVE  PkgInv'
PROOF
<1>1. PkgTypes /\ InsertsOwn /\ OneRow  BY DEF PkgInv
<1>2. PICK q : q = c.p  OBVIOUS
<1>3. c \in PkgCast /\ q \in Pkgs /\ PkgOk(q) /\ pkg[q].state # "none"
  BY <1>2, Known DEF PkgInv
<1>4. /\ c.m = "delete" /\ pkgCasts' = pkgCasts \ {c}
      /\ glance' = glance \ {q}
      /\ Fanout("delete", q, 0)
      /\ UNCHANGED <<pkg, vnfdRow, flavours, extracted, pkgInst, pkgReq, pkgCond, uploads, counted, pkgSplit,
                     pkgCut, usageRaced>>
  BY <1>2 DEF conductor_delete
<1>5. PICK e : e = [m |-> "delete", p |-> q, n |-> 0]  OBVIOUS
<1>6. 0 \in Number  BY VnfPackagesAssumption DEF Number
<1>7. /\ fanout' \in [PkgConductors -> Seq(FanCast)]
      /\ \A k \in PkgConductors : Entries(k)' = Entries(k) \cup {e}
      /\ e.p = q
  BY <1>1, <1>3, <1>4, <1>5, <1>6, FanoutMoves
<1>8. PkgTypes'
  <2>1. pkgCasts' \subseteq PkgCast /\ glance' \subseteq Pkgs  BY <1>1, <1>4 DEF PkgTypes
  <2>2. QED  BY <1>1, <1>4, <1>7, <2>1 DEF PkgTypes
<1>9. InsertsOwn' /\ OneRow'  BY <1>1, <1>4 DEF InsertsOwn, OneRow
<1>10. Only(q)
  <2>1. \A x \in PkgCast : x.p # q => (x \in pkgCasts' <=> x \in pkgCasts)  BY <1>2, <1>4
  <2>2. \A x \in Pkgs : x # q => (x \in glance' <=> x \in glance)  BY <1>4
  <2>3. \A k \in PkgConductors : \A x \in FanCast : x.p # q => (x \in Entries(k)' <=> x \in Entries(k))  BY <1>7
  <2>4. QED  BY <1>4, <2>1, <2>2, <2>3 DEF Only
<1>11. Live(q) => q \in pkgSplit
  <2>1. ~OneUpload(q)  BY <1>2, <1>4 DEF OneUpload
  <2>2. QED  BY <1>3, <2>1 DEF PkgOk, LiveInv
<1>12. \A k \in PkgConductors : CondIn(k, q, {"onboard", "save"})' <=> CondIn(k, q, {"onboard", "save"})
  BY <1>4 DEF CondIn
<1>13. GoneRow(q) => GoneRow(q)'  BY <1>4, <1>12 DEF GoneRow
<1>14. GoneInv(q) => GoneInv(q)'
  <2>1. q \notin glance'  BY <1>4
  <2>2. QED  BY <1>4, <1>12, <2>1 DEF GoneInv
<1>15. PkgOk(q)'  BY <1>3, <1>4, <1>11, <1>13, <1>14 DEF PkgOk, Live
<1>16. QED  BY <1>8, <1>9, <1>10, <1>15, OnlyPackage

\* delete_csar: a conductor deletes its directory.
LEMMA DeleteCsarStep ==
    ASSUME PkgInv, NEW k \in PkgConductors, delete_csar(k)
    PROVE  PkgInv'
PROOF
<1>1. PkgTypes /\ InsertsOwn /\ OneRow  BY DEF PkgInv
<1>2. PICK h : h = Head(fanout[k])  OBVIOUS
<1>3. PICK q : q = h.p  OBVIOUS
<1>4. /\ fanout[k] # <<>> /\ h.m = "delete"
      /\ fanout' = [fanout EXCEPT ![k] = Tail(@)]
      /\ extracted' = extracted \ {<<k, q>>}
      /\ UNCHANGED <<pkg, vnfdRow, flavours, glance, pkgInst, pkgReq, pkgCond, pkgCasts, uploads, counted,
                     pkgSplit, pkgCut, usageRaced>>
  BY <1>2, <1>3 DEF delete_csar
<1>5. /\ fanout' \in [PkgConductors -> Seq(FanCast)]
      /\ h \in FanCast /\ h \in Entries(k)
      /\ Entries(k)' \subseteq Entries(k)
      /\ \A e \in Entries(k) : e = h \/ e \in Entries(k)'
      /\ \A j \in PkgConductors : j # k => Entries(j)' = Entries(j)
  BY <1>1, <1>2, <1>4, FanoutTaken
<1>6. q \in Pkgs /\ PkgOk(q) /\ pkg[q].state # "none"
  BY <1>3, <1>5, Known DEF PkgInv, FanCast
<1>7. PkgTypes'
  <2>1. extracted' \subseteq PkgConductors \X Pkgs  BY <1>1, <1>4 DEF PkgTypes
  <2>2. QED  BY <1>1, <1>4, <1>5, <2>1 DEF PkgTypes
<1>8. InsertsOwn' /\ OneRow'  BY <1>1, <1>4 DEF InsertsOwn, OneRow
<1>9. Only(q)
  <2>1. \A j \in PkgConductors : \A x \in FanCast : x.p # q => (x \in Entries(j)' <=> x \in Entries(j))
    BY <1>3, <1>5
  <2>2. \A x \in Pkgs, j \in PkgConductors : x # q => (<<j, x>> \in extracted' <=> <<j, x>> \in extracted)
    BY <1>4
  <2>3. QED  BY <1>4, <2>1, <2>2 DEF Only
<1>10. \A j \in PkgConductors : /\ CondIn(j, q, {"onboard", "save"})' <=> CondIn(j, q, {"onboard", "save"})
                                /\ Active(j, q)' <=> Active(j, q)
                                /\ LoadEntry(j, q) => LoadEntry(j, q)'
  <2>1. \A j \in PkgConductors : LoadEntry(j, q) => LoadEntry(j, q)'  BY <1>4, <1>5 DEF LoadEntry
  <2>2. QED  BY <1>4, <2>1 DEF CondIn, Active
<1>11. ASSUME Live(q), LiveInv(q)  PROVE LiveInv(q)'
  <2>1. OneUpload(q)'
    <3>1. OneUpload(q)  BY <1>11 DEF LiveInv
    <3>2. QED  BY <1>4, <3>1 DEF OneUpload, UpReq, UpCast
  <2>2. pkg[q].onboarding # "UPLOADING"  BY <1>3, <1>5, <1>11 DEF LiveInv, UploadingInv, NoConductor
  <2>3. ~OnlyLoads(q)  BY <1>3, <1>4, <1>5 DEF OnlyLoads
  <2>4. pkg[q].onboarding # "PROCESSING" /\ pkg[q].onboarding # "ONBOARDED"
    BY <1>11, <2>3 DEF LiveInv, ProcessingInv, OnboardedInv
  <2>5. CreatedInv(q) => CreatedInv(q)'  BY <1>4, <1>10 DEF CreatedInv
  <2>6. QED  BY <1>4, <1>11, <2>1, <2>2, <2>4, <2>5 DEF LiveInv
<1>12. GoneRow(q) => GoneRow(q)'  BY <1>4, <1>10 DEF GoneRow
<1>13. GoneInv(q) => GoneInv(q)'  BY <1>4, <1>10 DEF GoneInv
<1>14. PkgOk(q)'  BY <1>4, <1>6, <1>11, <1>12, <1>13 DEF PkgOk, Live
<1>15. QED  BY <1>7, <1>8, <1>9, <1>14, OnlyPackage

\* The periodic cleanup deletes the directories of deleted packages.
LEMMA CleanupStep ==
    ASSUME PkgInv, NEW k \in PkgConductors, _run_cleanup_vnf_packages(k)
    PROVE  PkgInv'
PROOF
<1>1. PkgTypes /\ InsertsOwn /\ OneRow  BY DEF PkgInv
<1>2. /\ extracted' = {x \in extracted : x[1] # k \/ pkg[x[2]].state # "deleted"}
      /\ UNCHANGED <<pkg, vnfdRow, flavours, glance, pkgInst, pkgReq, pkgCond, pkgCasts, fanout, uploads,
                     counted, pkgSplit, pkgCut, usageRaced>>
  BY DEF _run_cleanup_vnf_packages
<1>3. PkgTypes'
  <2>1. extracted' \subseteq PkgConductors \X Pkgs  BY <1>1, <1>2 DEF PkgTypes
  <2>2. QED  BY <1>1, <1>2, <2>1 DEF PkgTypes
<1>4. InsertsOwn' /\ OneRow'  BY <1>1, <1>2 DEF InsertsOwn, OneRow
<1>5. ASSUME NEW p \in Pkgs  PROVE Same(p)
  <2>1. Live(p) => \A j \in PkgConductors : <<j, p>> \in extracted' <=> <<j, p>> \in extracted
    BY <1>2 DEF Live
  <2>2. \A j \in PkgConductors : Entries(j)' = Entries(j)  BY <1>2 DEF Entries
  <2>3. QED  BY <1>2, <2>1, <2>2 DEF Same, Active
<1>6. QED  BY <1>3, <1>4, <1>5, NoPackage

----------------------------------------------------------------------------
\* Conductor k goes on to step s with package q; everything else about the
\* conductors stays.
GoesOn(k, q, s) ==
    /\ q \in Pkgs /\ PkgOk(q) /\ pkg[q].state # "none"
    /\ pkgCond' \in [PkgConductors -> CondRow]
    /\ pkgCond'[k].n = pkgCond[k].n /\ pkgCond[k].n \in Number
    /\ \A steps : CondIn(k, q, steps)' <=> s \in steps
    /\ Active(k, q)
    /\ Active(k, q)' <=> s # "idle"
    /\ \A j \in PkgConductors : j # k => pkgCond'[j] = pkgCond[j]
    /\ \A j \in PkgConductors : \A steps : j # k => (CondIn(j, q, steps)' <=> CondIn(j, q, steps))
    /\ \A j \in PkgConductors : j # k => (Active(j, q)' <=> Active(j, q))
    /\ Solo(k, q) => Solo(k, q)'
    /\ \A j \in PkgConductors : \/ pkgCond'[j] = pkgCond[j]
                                \/ /\ pkgCond[j].pc = "idle" \/ pkgCond[j].p = q
                                   /\ pkgCond'[j].pc = "idle" \/ pkgCond'[j].p = q

\* That is what CondGoes says.
LEMMA CondStep ==
    ASSUME PkgInv, NEW k \in PkgConductors, pkgCond[k].pc # "idle", NEW s \in CondSteps, CondGoes(k, s),
           NEW q, q = pkgCond[k].p
    PROVE  GoesOn(k, q, s)
PROOF
<1>1. PkgTypes  BY DEF PkgInv
<1>2. /\ pkgCond' \in [PkgConductors -> CondRow]
      /\ pkgCond[k].p \in Pkgs /\ pkgCond[k].n \in Number
      /\ pkgCond'[k].pc = s /\ pkgCond'[k].p = pkgCond[k].p /\ pkgCond'[k].n = pkgCond[k].n
      /\ \A j \in PkgConductors : j # k => pkgCond'[j] = pkgCond[j]
  BY <1>1, CondMoves
<1>3. q \in Pkgs /\ PkgOk(q) /\ pkg[q].state # "none"  BY <1>2, Known DEF PkgInv
<1>4. /\ \A steps : CondIn(k, q, steps)' <=> s \in steps
      /\ \A j \in PkgConductors : \A steps : j # k => (CondIn(j, q, steps)' <=> CondIn(j, q, steps))
  BY <1>2 DEF CondIn
<1>5. /\ Active(k, q)
      /\ Active(k, q)' <=> s # "idle"
      /\ \A j \in PkgConductors : j # k => (Active(j, q)' <=> Active(j, q))
  BY <1>2 DEF Active
<1>6. Solo(k, q) => Solo(k, q)'  BY <1>5 DEF Solo
<1>7. QED  BY <1>2, <1>3, <1>4, <1>5, <1>6 DEF GoesOn

\* A conductor is at work on a live package only if it is PROCESSING, or CREATED
\* again after a revert.
LEMMA AtWork ==
    ASSUME NEW q, LiveInv(q), pkg[q].onboarding \in Onboarding, NEW k \in PkgConductors, Active(k, q)
    PROVE  pkg[q].onboarding \in {"CREATED", "PROCESSING"}
PROOF
<1>1. pkg[q].onboarding # "UPLOADING"  BY DEF LiveInv, UploadingInv, NoConductor
<1>2. pkg[q].onboarding # "ONBOARDED"  BY DEF LiveInv, OnboardedInv
<1>3. QED  BY <1>1, <1>2 DEF Onboarding

\* The conductors at work can be counted.
LEMMA BusyFinite ==
    ASSUME NEW q
    PROVE  IsFiniteSet(Busy(q)) /\ Cardinality(Busy(q)) \in Nat
           /\ (Cardinality(Busy(q)) = 0 <=> Busy(q) = {})
PROOF
<1>1. Busy(q) \subseteq PkgConductors  BY DEF Busy
<1>2. IsFiniteSet(Busy(q))  BY <1>1, VnfPackagesAssumption, FS_Subset
<1>3. QED  BY <1>2, FS_CardinalityType, FS_EmptySet

\* load_csar_data: a conductor takes the cast and counts itself in.
LEMMA LoadStep ==
    ASSUME PkgInv, NEW k \in PkgConductors, load_csar_data(k)
    PROVE  PkgInv'
PROOF
<1>1. PkgTypes /\ InsertsOwn /\ OneRow  BY DEF PkgInv
<1>2. PICK h : h = Head(fanout[k])  OBVIOUS
<1>3. PICK q : q = h.p  OBVIOUS
<1>4. /\ fanout[k] # <<>> /\ h.m = "load"
      /\ pkgCond[k].pc = "idle"
      /\ fanout' = [fanout EXCEPT ![k] = Tail(@)]
      /\ pkg' = [pkg EXCEPT ![q].downloading = @ + 1]
      /\ pkgCond' = [pkgCond EXCEPT ![k] = [pc |-> "load", p |-> q, n |-> h.n]]
      /\ pkgSplit' = IF h.n \in counted THEN pkgSplit \cup {q} ELSE pkgSplit
      /\ UNCHANGED <<vnfdRow, flavours, glance, extracted, pkgInst, pkgReq, pkgCasts, uploads, counted,
                     pkgCut, usageRaced>>
  BY <1>2, <1>3 DEF load_csar_data
<1>5. /\ fanout' \in [PkgConductors -> Seq(FanCast)]
      /\ h \in FanCast /\ h \in Entries(k)
      /\ Entries(k)' \subseteq Entries(k)
      /\ \A e \in Entries(k) : e = h \/ e \in Entries(k)'
      /\ \A j \in PkgConductors : j # k => Entries(j)' = Entries(j)
  BY <1>1, <1>2, <1>4, FanoutTaken
<1>6. q \in Pkgs /\ h.n \in Number /\ PkgOk(q) /\ pkg[q].state # "none"
  BY <1>3, <1>5, Known DEF PkgInv, FanCast
<1>7. /\ pkg' \in [Pkgs -> PkgRow]
      /\ pkg'[q].state = pkg[q].state /\ pkg'[q].onboarding = pkg[q].onboarding
      /\ pkg[q].downloading \in Int /\ pkg'[q].downloading = pkg[q].downloading + 1
      /\ \A x \in Pkgs : x # q => pkg'[x] = pkg[x]
  BY <1>1, <1>4, <1>6, DownloadingMoves
<1>8. /\ pkgCond' \in [PkgConductors -> CondRow]
      /\ pkgCond'[k].pc = "load" /\ pkgCond'[k].p = q /\ pkgCond'[k].n = h.n
      /\ \A j \in PkgConductors : j # k => pkgCond'[j] = pkgCond[j]
  <2> DEFINE r == [pc |-> "load", p |-> q, n |-> h.n]
  <2>1. r \in CondRow /\ r.pc = "load" /\ r.p = q /\ r.n = h.n  BY <1>6 DEF CondRow, CondSteps
  <2>2. pkgCond' = [pkgCond EXCEPT ![k] = r]  BY <1>4
  <2> HIDE DEF r
  <2>3. QED  BY <1>1, <2>1, <2>2 DEF PkgTypes
<1>9. PkgTypes'
  <2>1. pkgSplit' \subseteq Pkgs  BY <1>1, <1>4, <1>6 DEF PkgTypes
  <2>2. QED  BY <1>1, <1>4, <1>5, <1>7, <1>8, <2>1 DEF PkgTypes
<1>10. InsertsOwn' /\ OneRow'  BY <1>1, <1>4 DEF InsertsOwn, OneRow
<1>11. Only(q)
  <2>1. \A j \in PkgConductors : \A x \in FanCast : x.p # q => (x \in Entries(j)' <=> x \in Entries(j))
    BY <1>3, <1>5
  <2>2. \A j \in PkgConductors : \/ pkgCond'[j] = pkgCond[j]
                                 \/ /\ pkgCond[j].pc = "idle" \/ pkgCond[j].p = q
                                    /\ pkgCond'[j].pc = "idle" \/ pkgCond'[j].p = q
    BY <1>4, <1>8
  <2>3. pkgSplit \subseteq pkgSplit'  BY <1>4
  <2>4. QED  BY <1>4, <1>7, <2>1, <2>2, <2>3 DEF Only
<1>12. /\ \A steps : "idle" \notin steps => ~CondIn(k, q, steps)
       /\ \A steps : CondIn(k, q, steps)' <=> "load" \in steps
       /\ \A j \in PkgConductors : \A steps : j # k => (CondIn(j, q, steps)' <=> CondIn(j, q, steps))
       /\ Active(k, q)'
       /\ \A j \in PkgConductors : Active(j, q) => Active(j, q)'
  BY <1>4, <1>8 DEF CondIn, Active
<1>13. \A j \in PkgConductors : /\ CondIn(j, q, {"onboard", "save"})' <=> CondIn(j, q, {"onboard", "save"})
                                /\ CondIn(j, q, {"save"})' <=> CondIn(j, q, {"save"})
                                /\ CondIn(j, q, {"check"})' <=> CondIn(j, q, {"check"})
  <2>1. /\ ~CondIn(k, q, {"onboard", "save"}) /\ ~CondIn(k, q, {"save"}) /\ ~CondIn(k, q, {"check"})
        /\ ~CondIn(k, q, {"onboard", "save"})' /\ ~CondIn(k, q, {"save"})' /\ ~CondIn(k, q, {"check"})'
    BY <1>12
  <2>2. QED  BY <1>12, <2>1
<1>14. LoadEntry(k, q) /\ \A j \in PkgConductors : j # k => (LoadEntry(j, q)' <=> LoadEntry(j, q))
  BY <1>3, <1>4, <1>5 DEF LoadEntry
<1>15. ASSUME Live(q), LiveInv(q), h.n \notin counted  PROVE LiveInv(q)'
  <2>1. OneUpload(q)'
    <3>1. OneUpload(q)  BY <1>15 DEF LiveInv
    <3>2. QED  BY <1>4, <1>7, <3>1 DEF OneUpload, UpReq, UpCast
  <2>2. CreatedInv(q) => CreatedInv(q)'  BY <1>4, <1>13 DEF CreatedInv
  <2>3. pkg[q].onboarding # "UPLOADING"  BY <1>3, <1>5, <1>15 DEF LiveInv, UploadingInv, NoConductor
  <2>4. ~CountedLoads(q)  BY <1>3, <1>4, <1>5, <1>15 DEF CountedLoads
  <2>5. pkg[q].onboarding # "ONBOARDED"  BY <1>15, <2>4 DEF LiveInv, OnboardedInv
  <2>6. ASSUME ProcessingInv(q)  PROVE ProcessingInv(q)'
    <3>1. Racing(q)  BY <2>4, <2>6 DEF ProcessingInv, Won
    <3>2. OnlyLoads(q)'
      <4>1. \A j \in PkgConductors : Entries(j)' \subseteq Entries(j)  BY <1>5
      <4>2. OnlyLoads(q)  BY <2>6 DEF ProcessingInv
      <4>3. QED  BY <4>1, <4>2 DEF OnlyLoads
    <3>3. \A i \in Number : Loading(q, i)' => Loading(q, i)
      <4> SUFFICES ASSUME NEW i \in Number, Loading(q, i)'  PROVE Loading(q, i)
        OBVIOUS
      <4>1. CASE \E j \in PkgConductors : \E e \in Entries(j)' : e.p = q /\ e.m = "load" /\ e.n = i
        BY <1>5, <4>1 DEF Loading
      <4>2. CASE \E j \in PkgConductors : CondIn(j, q, {"load", "count"})' /\ pkgCond'[j].n = i
        <5>1. PICK j \in PkgConductors : CondIn(j, q, {"load", "count"})' /\ pkgCond'[j].n = i  BY <4>2
        <5>2. CASE j = k
          <6>1. h.n = i  BY <1>8, <5>1, <5>2
          <6>2. QED  BY <1>3, <1>4, <1>5, <6>1 DEF Loading
        <5>3. CASE j # k
          <6>1. CondIn(j, q, {"load", "count"}) /\ pkgCond[j].n = i  BY <1>8, <1>12, <5>1, <5>3
          <6>2. QED  BY <6>1 DEF Loading
        <5>4. QED  BY <5>2, <5>3
      <4>3. QED  BY <4>1, <4>2 DEF Loading
    <3>4. \A m, n \in Number : Loading(q, m)' /\ Loading(q, n)' => m = n  BY <2>6, <3>3 DEF ProcessingInv
    <3>5. \A j \in PkgConductors : LoadEntry(j, q)' \/ CondIn(j, q, {"load", "revert"})' \/ <<j, q>> \in extracted'
      <4>1. CondIn(k, q, {"load", "revert"})'  BY <1>12
      <4>2. ASSUME NEW j \in PkgConductors, j # k
            PROVE  LoadEntry(j, q)' \/ CondIn(j, q, {"load", "revert"})' \/ <<j, q>> \in extracted'
        BY <1>4, <1>12, <1>14, <2>6, <4>2 DEF ProcessingInv
      <4>3. QED  BY <4>1, <4>2
    <3>6. \A j \in PkgConductors : ~CondIn(j, q, {"save"})
      BY <3>1 DEF Racing, CondIn
    <3>7. q \notin vnfdRow /\ q \notin flavours  BY <2>6, <3>6 DEF ProcessingInv
    <3>8. Racing(q)'
      <4>1. \A j \in PkgConductors : ~CondIn(j, q, {"check"})  BY <2>4, <3>1 DEF Racing
      <4>2. Busy(q)' = Busy(q) \cup {k} /\ k \notin Busy(q)
        <5>1. \A j \in PkgConductors : CondIn(j, q, {"load", "count", "revert"})' <=>
                                           CondIn(j, q, {"load", "count", "revert"}) \/ j = k
          <6>1. CondIn(k, q, {"load", "count", "revert"})'  BY <1>12
          <6>2. \A j \in PkgConductors : j # k =>
                   (CondIn(j, q, {"load", "count", "revert"})' <=> CondIn(j, q, {"load", "count", "revert"}))
            BY <1>12
          <6>3. QED  BY <6>1, <6>2
        <5>2. ~CondIn(k, q, {"load", "count", "revert"})  BY <1>12
        <5>3. QED  BY <5>1, <5>2 DEF Busy
      <4>3. Cardinality(Busy(q)') = Cardinality(Busy(q)) + 1  BY <4>2, BusyFinite, FS_AddElement
      <4>4. pkg'[q].downloading = Cardinality(Busy(q)')  BY <1>7, <3>1, <4>3 DEF Racing
      <4>5. QED  BY <1>13, <3>1, <4>1, <4>4 DEF Racing
    <3>9. QED  BY <1>4, <1>12, <1>13, <2>6, <3>2, <3>4, <3>5, <3>6, <3>7, <3>8 DEF ProcessingInv
  <2>7. pkg[q].onboarding \in {"CREATED", "PROCESSING"}
    <3>1. pkg[q].onboarding \in Onboarding  BY <1>1, <1>6, PkgRows DEF PkgRow, Onboarding
    <3>2. QED  BY <2>3, <2>5, <3>1 DEF Onboarding
  <2>8. QED  BY <1>7, <1>15, <2>1, <2>2, <2>6, <2>7 DEF LiveInv
<1>16. GoneRow(q) => GoneRow(q)'  BY <1>4, <1>7, <1>13 DEF GoneRow
<1>17. GoneInv(q) => GoneInv(q)'  BY <1>4, <1>12, <1>13 DEF GoneInv
<1>18. PkgOk(q)'
  <2>1. q \notin pkgSplit' => q \notin pkgSplit /\ h.n \notin counted  BY <1>4
  <2>2. QED  BY <1>4, <1>6, <1>7, <1>15, <1>16, <1>17, <2>1 DEF PkgOk, Live
<1>19. QED  BY <1>9, <1>10, <1>11, <1>18, OnlyPackage

\* The CSAR is extracted, or the conductor will revert the upload.
LEMMA ExtractStep ==
    ASSUME PkgInv, NEW k \in PkgConductors, extract_csar(k)
    PROVE  PkgInv'
PROOF
<1>1. PkgTypes /\ InsertsOwn /\ OneRow  BY DEF PkgInv
<1>2. PICK q : q = pkgCond[k].p  OBVIOUS
<1>3. PICK s \in {"count", "revert"} :
         /\ pkgCond[k].pc = "load" /\ CondGoes(k, s)
         /\ extracted' \subseteq extracted \cup {<<k, q>>} /\ extracted \subseteq extracted'
         /\ q \in glance => <<k, q>> \in extracted'
         /\ UNCHANGED <<pkg, vnfdRow, flavours, glance, pkgInst, pkgReq, pkgCasts, fanout, uploads, counted,
                        pkgSplit, pkgCut, usageRaced>>
  BY <1>2 DEF extract_csar
<1>4. s \in CondSteps /\ s # "idle"  BY <1>3 DEF CondSteps
<1>5. /\ q \in Pkgs /\ PkgOk(q) /\ pkg[q].state # "none"
      /\ pkgCond' \in [PkgConductors -> CondRow]
      /\ pkgCond'[k].n = pkgCond[k].n /\ pkgCond[k].n \in Number
      /\ \A steps : CondIn(k, q, steps)' <=> s \in steps
      /\ Active(k, q) /\ Active(k, q)'
      /\ \A j \in PkgConductors : j # k => pkgCond'[j] = pkgCond[j]
      /\ \A j \in PkgConductors : \A steps : j # k => (CondIn(j, q, steps)' <=> CondIn(j, q, steps))
      /\ \A j \in PkgConductors : j # k => (Active(j, q)' <=> Active(j, q))
      /\ \A j \in PkgConductors : \/ pkgCond'[j] = pkgCond[j]
                                  \/ /\ pkgCond[j].pc = "idle" \/ pkgCond[j].p = q
                                     /\ pkgCond'[j].pc = "idle" \/ pkgCond'[j].p = q
  <2>1. GoesOn(k, q, s)  BY <1>2, <1>3, <1>4, CondStep
  <2>2. QED  BY <1>3, <1>4, <2>1 DEF GoesOn
<1>6. PkgTypes'
  <2>1. extracted' \subseteq PkgConductors \X Pkgs  BY <1>1, <1>3, <1>5 DEF PkgTypes
  <2>2. QED  BY <1>1, <1>3, <1>5, <2>1 DEF PkgTypes
<1>7. InsertsOwn' /\ OneRow'  BY <1>1, <1>3 DEF InsertsOwn, OneRow
<1>8. \A j \in PkgConductors : Entries(j)' = Entries(j)  BY <1>3 DEF Entries
<1>9. Only(q)
  <2>1. \A x \in Pkgs, j \in PkgConductors : x # q => (<<j, x>> \in extracted' <=> <<j, x>> \in extracted)
    BY <1>3
  <2>2. QED  BY <1>3, <1>5, <1>8, <2>1 DEF Only
<1>10. \A steps : CondIn(k, q, steps) <=> "load" \in steps  BY <1>2, <1>3 DEF CondIn
<1>11. \A j \in PkgConductors : /\ CondIn(j, q, {"onboard", "save"})' <=> CondIn(j, q, {"onboard", "save"})
                                /\ CondIn(j, q, {"save"})' <=> CondIn(j, q, {"save"})
                                /\ CondIn(j, q, {"check"})' <=> CondIn(j, q, {"check"})
                                /\ LoadEntry(j, q)' <=> LoadEntry(j, q)
  <2>1. /\ ~CondIn(k, q, {"onboard", "save"}) /\ ~CondIn(k, q, {"save"}) /\ ~CondIn(k, q, {"check"})
        /\ ~CondIn(k, q, {"onboard", "save"})' /\ ~CondIn(k, q, {"save"})' /\ ~CondIn(k, q, {"check"})'
    BY <1>3, <1>5, <1>10
  <2>2. \A j \in PkgConductors : LoadEntry(j, q)' <=> LoadEntry(j, q)  BY <1>8 DEF LoadEntry
  <2>3. QED  BY <1>5, <2>1, <2>2
<1>12. ASSUME Live(q), LiveInv(q)  PROVE LiveInv(q)'
  <2>1. OneUpload(q)'
    <3>1. OneUpload(q)  BY <1>12 DEF LiveInv
    <3>2. QED  BY <1>3, <3>1 DEF OneUpload, UpReq, UpCast
  <2>2. CreatedInv(q) => CreatedInv(q)'  BY <1>3, <1>11 DEF CreatedInv
  <2>3. pkg[q].onboarding \in {"CREATED", "PROCESSING"}
    <3>1. pkg[q].onboarding \in Onboarding  BY <1>1, <1>5, PkgRows DEF PkgRow, Onboarding
    <3>2. QED  BY <1>5, <1>12, <3>1, AtWork
  <2>4. ASSUME ProcessingInv(q)  PROVE ProcessingInv(q)'
    <3>1. Racing(q)
      <4>1. ~Won(q)  BY <1>3, <1>5, <1>10 DEF Won, Solo
      <4>2. QED  BY <2>4, <4>1 DEF ProcessingInv
    <3>2. OnlyLoads(q)' /\ (CountedLoads(q) => CountedLoads(q)')
      BY <1>3, <1>8, <2>4 DEF ProcessingInv, OnlyLoads, CountedLoads
    <3>3. \A i \in Number : Loading(q, i)' => Loading(q, i)
      <4> SUFFICES ASSUME NEW i \in Number, Loading(q, i)'  PROVE Loading(q, i)
        OBVIOUS
      <4>1. CASE \E j \in PkgConductors : \E e \in Entries(j)' : e.p = q /\ e.m = "load" /\ e.n = i
        BY <1>8, <4>1 DEF Loading
      <4>2. CASE \E j \in PkgConductors : CondIn(j, q, {"load", "count"})' /\ pkgCond'[j].n = i
        <5>1. PICK j \in PkgConductors : CondIn(j, q, {"load", "count"})' /\ pkgCond'[j].n = i  BY <4>2
        <5>2. CondIn(j, q, {"load", "count"}) /\ pkgCond[j].n = i  BY <1>5, <1>10, <5>1
        <5>3. QED  BY <5>2 DEF Loading
      <4>3. QED  BY <4>1, <4>2 DEF Loading
    <3>4. \A m, n \in Number : Loading(q, m)' /\ Loading(q, n)' => m = n  BY <2>4, <3>3 DEF ProcessingInv
    <3>5. \A j \in PkgConductors : LoadEntry(j, q)' \/ CondIn(j, q, {"load", "revert"})' \/ <<j, q>> \in extracted'
      <4>1. <<k, q>> \in extracted'  BY <1>3, <2>4 DEF ProcessingInv
      <4>2. ASSUME NEW j \in PkgConductors, j # k
            PROVE  LoadEntry(j, q)' \/ CondIn(j, q, {"load", "revert"})' \/ <<j, q>> \in extracted'
        BY <1>3, <1>5, <1>11, <2>4, <4>2 DEF ProcessingInv
      <4>3. QED  BY <4>1, <4>2
    <3>6. Racing(q)'
      <4>1. \A j \in PkgConductors : CondIn(j, q, {"load", "count", "revert"})' <=>
                                         CondIn(j, q, {"load", "count", "revert"})
        <5>1. CondIn(k, q, {"load", "count", "revert"}) /\ CondIn(k, q, {"load", "count", "revert"})'
          BY <1>3, <1>5, <1>10
        <5>2. QED  BY <1>5, <5>1
      <4>2. Busy(q)' = Busy(q)  BY <4>1 DEF Busy
      <4>3. QED  BY <1>3, <1>11, <3>1, <3>2, <4>2 DEF Racing
    <3>7. QED  BY <1>3, <1>5, <1>11, <2>4, <3>2, <3>4, <3>5, <3>6 DEF ProcessingInv
  <2>5. QED  BY <1>3, <1>12, <2>1, <2>2, <2>3, <2>4 DEF LiveInv
<1>13. GoneRow(q) => GoneRow(q)'  BY <1>3, <1>11 DEF GoneRow
<1>14. GoneInv(q) => GoneInv(q)'  BY <1>3, <1>5, <1>11 DEF GoneInv
<1>15. PkgOk(q)'  BY <1>3, <1>5, <1>12, <1>13, <1>14 DEF PkgOk, Live
<1>16. QED  BY <1>6, <1>7, <1>9, <1>15, OnlyPackage

\* What the decrement of downloading changes.
LEMMA CountDownMoves ==
    ASSUME PkgTypes, NEW q \in Pkgs, pkg' = [pkg EXCEPT ![q].downloading = @ - 1]
    PROVE  /\ pkg' \in [Pkgs -> PkgRow]
           /\ pkg[q].downloading \in Int
           /\ pkg'[q].state = pkg[q].state
           /\ pkg'[q].onboarding = pkg[q].onboarding
           /\ pkg'[q].downloading = pkg[q].downloading - 1
           /\ pkg'[q].usage = pkg[q].usage
           /\ \A x \in Pkgs : x # q => pkg'[x] = pkg[x]
PROOF
<1> DEFINE r == [pkg[q] EXCEPT !.downloading = @ - 1]
<1>1. pkg[q] \in PkgRow  BY PkgRows
<1>2. r \in PkgRow /\ pkg[q].downloading \in Int  BY <1>1 DEF PkgRow, Onboarding
<1>3. r.state = pkg[q].state /\ r.onboarding = pkg[q].onboarding /\ r.downloading = pkg[q].downloading - 1 /\ r.usage = pkg[q].usage
  BY <1>1 DEF PkgRow
<1>4. pkg' = [pkg EXCEPT ![q] = r]  BY PkgRows
<1> HIDE DEF r
<1>5. QED  BY <1>2, <1>3, <1>4, RowMoves

\* A conductor counts itself out.
LEMMA CountStep ==
    ASSUME PkgInv, NEW k \in PkgConductors, count_down(k)
    PROVE  PkgInv'
PROOF
<1>1. PkgTypes /\ InsertsOwn /\ OneRow  BY DEF PkgInv
<1>2. PICK q : q = pkgCond[k].p  OBVIOUS
<1>3. PICK n : n = pkgCond[k].n  OBVIOUS
<1>4. /\ pkgCond[k].pc = "count" /\ CondGoes(k, "check")
      /\ pkg' = [pkg EXCEPT ![q].downloading = @ - 1]
      /\ counted' = counted \cup {n}
      /\ pkgSplit' = IF \E j \in PkgConductors : pkgCond[j].p = q /\ pkgCond[j].pc \in {"check", "onboard", "save"}
                     THEN pkgSplit \cup {q} ELSE pkgSplit
      /\ UNCHANGED <<vnfdRow, flavours, glance, extracted, pkgInst, pkgReq, pkgCasts, fanout, uploads,
                     pkgCut, usageRaced>>
  BY <1>2, <1>3 DEF count_down
<1>5. /\ q \in Pkgs /\ PkgOk(q) /\ pkg[q].state # "none"
      /\ pkgCond' \in [PkgConductors -> CondRow]
      /\ pkgCond'[k].n = n /\ n \in Number
      /\ \A steps : CondIn(k, q, steps)' <=> "check" \in steps
      /\ Active(k, q) /\ Active(k, q)'
      /\ \A j \in PkgConductors : j # k => pkgCond'[j] = pkgCond[j]
      /\ \A j \in PkgConductors : \A steps : j # k => (CondIn(j, q, steps)' <=> CondIn(j, q, steps))
      /\ \A j \in PkgConductors : j # k => (Active(j, q)' <=> Active(j, q))
      /\ \A j \in PkgConductors : \/ pkgCond'[j] = pkgCond[j]
                                  \/ /\ pkgCond[j].pc = "idle" \/ pkgCond[j].p = q
                                     /\ pkgCond'[j].pc = "idle" \/ pkgCond'[j].p = q
  <2>1. "check" \in CondSteps /\ "check" # "idle"  BY DEF CondSteps
  <2>2. GoesOn(k, q, "check")  BY <1>2, <1>4, <2>1, CondStep
  <2>3. QED  BY <1>3, <2>1, <2>2 DEF GoesOn
<1>6. /\ pkg' \in [Pkgs -> PkgRow]
      /\ pkg'[q].state = pkg[q].state /\ pkg'[q].onboarding = pkg[q].onboarding
      /\ pkg[q].downloading \in Int /\ pkg'[q].downloading = pkg[q].downloading - 1
      /\ \A x \in Pkgs : x # q => pkg'[x] = pkg[x]
  BY <1>1, <1>4, <1>5, CountDownMoves
<1>7. PkgTypes'
  <2>1. pkgSplit' \subseteq Pkgs  BY <1>1, <1>4, <1>5 DEF PkgTypes
  <2>2. QED  BY <1>1, <1>4, <1>5, <1>6, <2>1 DEF PkgTypes
<1>8. InsertsOwn' /\ OneRow'  BY <1>1, <1>4 DEF InsertsOwn, OneRow
<1>9. \A j \in PkgConductors : Entries(j)' = Entries(j)  BY <1>4 DEF Entries
<1>10. Only(q)
  <2>1. pkgSplit \subseteq pkgSplit' /\ counted \subseteq counted'  BY <1>4
  <2>2. QED  BY <1>4, <1>5, <1>6, <1>9, <2>1 DEF Only
<1>11. \A steps : CondIn(k, q, steps) <=> "count" \in steps  BY <1>2, <1>4 DEF CondIn
<1>12. \A j \in PkgConductors : /\ CondIn(j, q, {"onboard", "save"})' <=> CondIn(j, q, {"onboard", "save"})
                                /\ CondIn(j, q, {"save"})' <=> CondIn(j, q, {"save"})
                                /\ LoadEntry(j, q)' <=> LoadEntry(j, q)
  <2>1. /\ ~CondIn(k, q, {"onboard", "save"}) /\ ~CondIn(k, q, {"save"})
        /\ ~CondIn(k, q, {"onboard", "save"})' /\ ~CondIn(k, q, {"save"})'
    BY <1>5, <1>11
  <2>2. \A j \in PkgConductors : LoadEntry(j, q)' <=> LoadEntry(j, q)  BY <1>9 DEF LoadEntry
  <2>3. QED  BY <1>5, <2>1, <2>2
<1>13. ASSUME Live(q), LiveInv(q), q \notin pkgSplit'  PROVE LiveInv(q)'
  <2>1. OneUpload(q)'
    <3>1. OneUpload(q)  BY <1>13 DEF LiveInv
    <3>2. QED  BY <1>4, <1>6, <3>1 DEF OneUpload, UpReq, UpCast
  <2>2. CreatedInv(q) => CreatedInv(q)'  BY <1>4, <1>12 DEF CreatedInv
  <2>3. pkg[q].onboarding \in {"CREATED", "PROCESSING"}
    <3>1. pkg[q].onboarding \in Onboarding  BY <1>1, <1>5, PkgRows DEF PkgRow, Onboarding
    <3>2. QED  BY <1>5, <1>13, <3>1, AtWork
  <2>4. ASSUME ProcessingInv(q)  PROVE ProcessingInv(q)'
    <3>1. Racing(q)
      <4>1. ~Won(q)  BY <1>5, <1>11 DEF Won, Solo
      <4>2. QED  BY <2>4, <4>1 DEF ProcessingInv
    <3>2. OnlyLoads(q)'  BY <1>9, <2>4 DEF ProcessingInv, OnlyLoads
    <3>3. CountedLoads(q)'
      <4>1. Loading(q, n)
        <5>1. CondIn(k, q, {"load", "count"}) /\ pkgCond[k].n = n  BY <1>3, <1>11
        <5>2. QED  BY <5>1 DEF Loading
      <4>2. ASSUME NEW j \in PkgConductors, NEW e \in Entries(j), e.p = q, e.m = "load"  PROVE e.n = n
        <5>1. Loading(q, e.n)  BY <4>2 DEF Loading
        <5>2. e.n \in Number  BY <1>1, EntryTypes DEF FanCast
        <5>3. QED  BY <1>5, <2>4, <4>1, <5>1, <5>2 DEF ProcessingInv
      <4>3. n \in counted'  BY <1>4
      <4>4. QED  BY <1>9, <4>2, <4>3 DEF CountedLoads
    <3>4. \A i \in Number : Loading(q, i)' => Loading(q, i)
      <4> SUFFICES ASSUME NEW i \in Number, Loading(q, i)'  PROVE Loading(q, i)
        OBVIOUS
      <4>1. CASE \E j \in PkgConductors : \E e \in Entries(j)' : e.p = q /\ e.m = "load" /\ e.n = i
        BY <1>9, <4>1 DEF Loading
      <4>2. CASE \E j \in PkgConductors : CondIn(j, q, {"load", "count"})' /\ pkgCond'[j].n = i
        <5>1. PICK j \in PkgConductors : CondIn(j, q, {"load", "count"})' /\ pkgCond'[j].n = i  BY <4>2
        <5>2. j # k  BY <1>5, <5>1
        <5>3. CondIn(j, q, {"load", "count"}) /\ pkgCond[j].n = i  BY <1>5, <5>1, <5>2
        <5>4. QED  BY <5>3 DEF Loading
      <4>3. QED  BY <4>1, <4>2 DEF Loading
    <3>5. \A m, i \in Number : Loading(q, m)' /\ Loading(q, i)' => m = i  BY <2>4, <3>4 DEF ProcessingInv
    <3>6. \A j \in PkgConductors : LoadEntry(j, q)' \/ CondIn(j, q, {"load", "revert"})' \/ <<j, q>> \in extracted'
      <4>1. LoadEntry(k, q) \/ <<k, q>> \in extracted
        <5>1. ~CondIn(k, q, {"load", "revert"})  BY <1>11
        <5>2. QED  BY <2>4, <5>1 DEF ProcessingInv
      <4>2. ASSUME NEW j \in PkgConductors, j # k
            PROVE  LoadEntry(j, q)' \/ CondIn(j, q, {"load", "revert"})' \/ <<j, q>> \in extracted'
        BY <1>4, <1>5, <1>12, <2>4, <4>2 DEF ProcessingInv
      <4>3. QED  BY <1>4, <1>12, <4>1, <4>2
    <3>7. \A j \in PkgConductors : ~CondIn(j, q, {"check"})
      <4>1. ~(\E j \in PkgConductors : pkgCond[j].p = q /\ pkgCond[j].pc \in {"check", "onboard", "save"})
        BY <1>4, <1>13
      <4>2. QED  BY <4>1 DEF CondIn
    <3>8. Racing(q)'
      <4>1. Busy(q)' = Busy(q) \ {k} /\ k \in Busy(q)
        <5>1. CondIn(k, q, {"load", "count", "revert"}) /\ ~CondIn(k, q, {"load", "count", "revert"})'
          BY <1>5, <1>11
        <5>2. \A j \in PkgConductors : j # k =>
                 (CondIn(j, q, {"load", "count", "revert"})' <=> CondIn(j, q, {"load", "count", "revert"}))
          BY <1>5
        <5>3. QED  BY <5>1, <5>2 DEF Busy
      <4>2. Cardinality(Busy(q)') = Cardinality(Busy(q)) - 1  BY <4>1, BusyFinite, FS_RemoveElement
      <4>3. pkg'[q].downloading = Cardinality(Busy(q)')  BY <1>6, <3>1, <4>2 DEF Racing
      <4>4. \A j \in PkgConductors : CondIn(j, q, {"check"})' => j = k  BY <1>5, <3>7
      <4>5. QED  BY <1>12, <3>1, <3>3, <4>3, <4>4 DEF Racing
    <3>9. QED  BY <1>4, <1>5, <1>12, <2>4, <3>2, <3>5, <3>6, <3>8 DEF ProcessingInv
  <2>5. QED  BY <1>6, <1>13, <2>1, <2>2, <2>3, <2>4 DEF LiveInv
<1>14. GoneRow(q) => GoneRow(q)'  BY <1>4, <1>6, <1>12 DEF GoneRow
<1>15. GoneInv(q) => GoneInv(q)'  BY <1>4, <1>5, <1>12 DEF GoneInv
<1>16. PkgOk(q)'
  <2>1. q \notin pkgSplit' => q \notin pkgSplit  BY <1>4
  <2>2. QED  BY <1>4, <1>5, <1>6, <1>13, <1>14, <1>15, <2>1 DEF PkgOk, Live
<1>17. QED  BY <1>7, <1>8, <1>10, <1>16, OnlyPackage

\* The conductor reads the row again: only the last one finds 0 and onboards.
LEMMA CheckStep ==
    ASSUME PkgInv, NEW k \in PkgConductors, check_downloading(k)
    PROVE  PkgInv'
PROOF
<1>1. PkgTypes /\ InsertsOwn /\ OneRow  BY DEF PkgInv
<1>2. PICK q : q = pkgCond[k].p  OBVIOUS
<1>3. PICK s : s = IF ~Live(q) THEN "revert" ELSE IF MayOnboard(q) THEN "onboard" ELSE "idle"  OBVIOUS
<1>4. /\ pkgCond[k].pc = "check" /\ CondGoes(k, s)
      /\ UNCHANGED <<pkg, vnfdRow, flavours, glance, extracted, pkgInst, pkgReq, pkgCasts, fanout, uploads,
                     counted, pkgSplit, pkgCut, usageRaced>>
  BY <1>2, <1>3 DEF check_downloading
<1>5. /\ q \in Pkgs /\ PkgOk(q) /\ pkg[q].state # "none"
      /\ pkgCond' \in [PkgConductors -> CondRow]
      /\ \A steps : CondIn(k, q, steps)' <=> s \in steps
      /\ Active(k, q) /\ (Active(k, q)' <=> s # "idle")
      /\ \A j \in PkgConductors : j # k => pkgCond'[j] = pkgCond[j]
      /\ \A j \in PkgConductors : \A steps : j # k => (CondIn(j, q, steps)' <=> CondIn(j, q, steps))
      /\ \A j \in PkgConductors : j # k => (Active(j, q)' <=> Active(j, q))
      /\ Solo(k, q) => Solo(k, q)'
      /\ \A j \in PkgConductors : \/ pkgCond'[j] = pkgCond[j]
                                  \/ /\ pkgCond[j].pc = "idle" \/ pkgCond[j].p = q
                                     /\ pkgCond'[j].pc = "idle" \/ pkgCond'[j].p = q
  <2>1. s \in CondSteps  BY <1>3 DEF CondSteps
  <2>2. GoesOn(k, q, s)  BY <1>2, <1>4, <2>1, CondStep
  <2>3. QED  BY <2>2 DEF GoesOn
<1>6. PkgTypes'  BY <1>1, <1>4, <1>5 DEF PkgTypes
<1>7. InsertsOwn' /\ OneRow'  BY <1>1, <1>4 DEF InsertsOwn, OneRow
<1>8. \A j \in PkgConductors : Entries(j)' = Entries(j)  BY <1>4 DEF Entries
<1>9. Only(q)  BY <1>4, <1>5, <1>8 DEF Only
<1>10. \A steps : CondIn(k, q, steps) <=> "check" \in steps  BY <1>2, <1>4 DEF CondIn
<1>11. \A j \in PkgConductors : LoadEntry(j, q)' <=> LoadEntry(j, q)  BY <1>8 DEF LoadEntry
<1>12. ASSUME Live(q), LiveInv(q)  PROVE LiveInv(q)'
  <2>1. OneUpload(q)'
    <3>1. OneUpload(q)  BY <1>12 DEF LiveInv
    <3>2. QED  BY <1>4, <3>1 DEF OneUpload, UpReq, UpCast
  <2>2. pkg[q].onboarding \in {"CREATED", "PROCESSING"}
    <3>1. pkg[q].onboarding \in Onboarding  BY <1>1, <1>5, PkgRows DEF PkgRow, Onboarding
    <3>2. QED  BY <1>5, <1>12, <3>1, AtWork
  <2>3. ASSUME pkg[q].onboarding = "CREATED", CreatedInv(q)  PROVE CreatedInv(q)'
    <3>1. s = "idle"  BY <1>3, <1>12, <2>3 DEF MayOnboard
    <3>2. \A j \in PkgConductors : ~CondIn(j, q, {"onboard", "save"})'
      BY <1>5, <2>3, <3>1 DEF CreatedInv
    <3>3. QED  BY <1>4, <2>3, <3>2 DEF CreatedInv
  <2>4. ASSUME pkg[q].onboarding = "PROCESSING", ProcessingInv(q)  PROVE ProcessingInv(q)'
    <3>1. s = IF pkg[q].downloading = 0 THEN "onboard" ELSE "idle"  BY <1>3, <1>12, <2>4 DEF MayOnboard
    <3>2. Racing(q)
      <4>1. ~Won(q)  BY <1>5, <1>10 DEF Won, Solo
      <4>2. QED  BY <2>4, <4>1 DEF ProcessingInv
    <3>3. CountedLoads(q) /\ \A j \in PkgConductors : CondIn(j, q, {"check"}) => j = k
      BY <1>10, <3>2 DEF Racing
    <3>4. OnlyLoads(q)' /\ CountedLoads(q)'
      BY <1>4, <1>8, <2>4, <3>3 DEF ProcessingInv, OnlyLoads, CountedLoads
    <3>5. \A i \in Number : Loading(q, i)' => Loading(q, i)
      <4> SUFFICES ASSUME NEW i \in Number, Loading(q, i)'  PROVE Loading(q, i)
        OBVIOUS
      <4>1. CASE \E j \in PkgConductors : \E e \in Entries(j)' : e.p = q /\ e.m = "load" /\ e.n = i
        BY <1>8, <4>1 DEF Loading
      <4>2. CASE \E j \in PkgConductors : CondIn(j, q, {"load", "count"})' /\ pkgCond'[j].n = i
        <5>1. PICK j \in PkgConductors : CondIn(j, q, {"load", "count"})' /\ pkgCond'[j].n = i  BY <4>2
        <5>2. j # k
          <6>1. ~CondIn(k, q, {"load", "count"})'  BY <1>5, <3>1
          <6>2. QED  BY <5>1, <6>1
        <5>3. CondIn(j, q, {"load", "count"}) /\ pkgCond[j].n = i  BY <1>5, <5>1, <5>2
        <5>4. QED  BY <5>3 DEF Loading
      <4>3. QED  BY <4>1, <4>2 DEF Loading
    <3>6. \A m, i \in Number : Loading(q, m)' /\ Loading(q, i)' => m = i  BY <2>4, <3>5 DEF ProcessingInv
    <3>7. \A j \in PkgConductors : LoadEntry(j, q)' \/ CondIn(j, q, {"load", "revert"})' \/ <<j, q>> \in extracted'
      <4>1. LoadEntry(k, q) \/ <<k, q>> \in extracted
        <5>1. ~CondIn(k, q, {"load", "revert"})  BY <1>10
        <5>2. QED  BY <2>4, <5>1 DEF ProcessingInv
      <4>2. ASSUME NEW j \in PkgConductors, j # k
            PROVE  LoadEntry(j, q)' \/ CondIn(j, q, {"load", "revert"})' \/ <<j, q>> \in extracted'
        BY <1>4, <1>5, <1>11, <2>4, <4>2 DEF ProcessingInv
      <4>3. QED  BY <1>4, <1>11, <4>1, <4>2
    <3>8. (\A j \in PkgConductors : ~CondIn(j, q, {"save"})) /\ \A j \in PkgConductors : ~CondIn(j, q, {"save"})'
      <4>1. \A j \in PkgConductors : ~CondIn(j, q, {"save"})  BY <3>2 DEF Racing, CondIn
      <4>2. ~CondIn(k, q, {"save"})'  BY <1>5, <3>1
      <4>3. QED  BY <1>5, <4>1, <4>2
    <3>9. Busy(q)' = Busy(q)
      <4>1. ~CondIn(k, q, {"load", "count", "revert"}) /\ ~CondIn(k, q, {"load", "count", "revert"})'
        BY <1>5, <1>10, <3>1
      <4>2. \A j \in PkgConductors :
               CondIn(j, q, {"load", "count", "revert"})' <=> CondIn(j, q, {"load", "count", "revert"})
        BY <1>5, <4>1
      <4>3. QED  BY <4>2 DEF Busy
    <3>10. \A j \in Busy(q) : j # k /\ Active(j, q)
      <4>1. ~CondIn(k, q, {"load", "count", "revert"})  BY <1>10
      <4>2. QED  BY <4>1 DEF Busy, CondIn, Active
    <3>11. \E j \in PkgConductors : LoadEntry(j, q)' \/ Active(j, q)'
      <4>1. CASE pkg[q].downloading = 0
        <5>1. Active(k, q)'  BY <1>5, <3>1, <4>1
        <5>2. QED  BY <5>1
      <4>2. CASE pkg[q].downloading # 0
        <5>1. Busy(q) # {}  BY <3>2, <4>2, BusyFinite DEF Racing
        <5>2. PICK j \in Busy(q) : TRUE  BY <5>1
        <5>3. j \in PkgConductors /\ Active(j, q)'  BY <1>5, <3>10, <5>2 DEF Busy
        <5>4. QED  BY <5>3
      <4>3. QED  BY <4>1, <4>2
    <3>12. Racing(q)' \/ Won(q)'
      <4>1. CASE pkg[q].downloading = 0
        <5>1. Busy(q) = {}  BY <3>2, <4>1, BusyFinite DEF Racing
        <5>2. Solo(k, q)
          <6> SUFFICES ASSUME NEW j \in PkgConductors, Active(j, q)  PROVE j = k
            BY DEF Solo
          <6>1. pkgCond[j] \in CondRow  BY <1>1 DEF PkgTypes
          <6>2. ~CondIn(j, q, {"load", "count", "revert"})  BY <5>1 DEF Busy
          <6>3. ~CondIn(j, q, {"onboard", "save"})  BY <3>2 DEF Racing
          <6>4. CondIn(j, q, {"check"})  BY <6>1, <6>2, <6>3 DEF CondIn, Active, CondRow, CondSteps
          <6>5. QED  BY <3>3, <6>4
        <5>3. CondIn(k, q, {"onboard", "save", "revert"})'  BY <1>5, <3>1, <4>1
        <5>4. QED  BY <1>5, <3>4, <5>2, <5>3 DEF Won
      <4>2. CASE pkg[q].downloading # 0
        <5>1. s = "idle"  BY <3>1, <4>2
        <5>2. \A j \in PkgConductors : ~CondIn(j, q, {"onboard", "save"})'
          BY <1>5, <3>2, <5>1 DEF Racing
        <5>3. \A j \in PkgConductors : ~CondIn(j, q, {"check"})'  BY <1>5, <3>3, <5>1
        <5>4. QED  BY <1>4, <3>2, <3>9, <5>2, <5>3 DEF Racing
      <4>3. QED  BY <4>1, <4>2
    <3>13. q \notin vnfdRow /\ q \notin flavours  BY <2>4, <3>8 DEF ProcessingInv
    <3>14. QED  BY <1>4, <2>4, <3>4, <3>6, <3>7, <3>8, <3>11, <3>12, <3>13 DEF ProcessingInv
  <2>5. QED  BY <1>4, <1>12, <2>1, <2>2, <2>3, <2>4 DEF LiveInv
<1>13. ASSUME pkg[q].state = "deleted"  PROVE (GoneRow(q) => GoneRow(q)') /\ (GoneInv(q) => GoneInv(q)')
  <2>1. s = "revert"  BY <1>3, <1>13 DEF Live
  <2>2. \A j \in PkgConductors : CondIn(j, q, {"onboard", "save"})' <=> CondIn(j, q, {"onboard", "save"})
    <3>1. ~CondIn(k, q, {"onboard", "save"}) /\ ~CondIn(k, q, {"onboard", "save"})'  BY <1>5, <1>10, <2>1
    <3>2. QED  BY <1>5, <3>1
  <2>3. GoneRow(q) => GoneRow(q)'  BY <1>4, <2>2 DEF GoneRow
  <2>4. \A j \in PkgConductors : Active(j, q)' <=> Active(j, q)  BY <1>5, <2>1
  <2>5. GoneInv(q) => GoneInv(q)'  BY <1>4, <1>11, <2>2, <2>4 DEF GoneInv
  <2>6. QED  BY <2>3, <2>5
<1>14. PkgOk(q)'  BY <1>4, <1>5, <1>12, <1>13 DEF PkgOk, Live
<1>15. QED  BY <1>6, <1>7, <1>9, <1>14, OnlyPackage

\* The conductor that onboards is alone at work.
LEMMA Winner ==
    ASSUME NEW q, ProcessingInv(q), NEW k \in PkgConductors, CondIn(k, q, {"onboard", "save"})
    PROVE  Solo(k, q) /\ CountedLoads(q)
PROOF
<1>1. ~Racing(q)  BY DEF Racing
<1>2. PICK j \in PkgConductors : Solo(j, q) /\ CountedLoads(q)  BY <1>1 DEF ProcessingInv, Won
<1>3. Active(k, q)  BY DEF CondIn, Active
<1>4. k = j  BY <1>2, <1>3 DEF Solo
<1>5. QED  BY <1>2, <1>4

\* The rows of the VNFD and the flavours are inserted, or the upload is reverted.
LEMMA OnboardStep ==
    ASSUME PkgInv, NEW k \in PkgConductors, _onboard_vnf_package(k)
    PROVE  PkgInv'
PROOF
<1>1. PkgTypes /\ InsertsOwn /\ OneRow  BY DEF PkgInv
<1>2. PICK q : q = pkgCond[k].p  OBVIOUS
<1>3. PICK s \in {"save", "revert"} :
         /\ pkgCond[k].pc = "onboard" /\ CondGoes(k, s)
         /\ s = "save" => vnfdRow = {} /\ vnfdRow' = {q} /\ flavours' = flavours \cup {q}
         /\ s = "revert" => UNCHANGED <<vnfdRow, flavours>>
         /\ UNCHANGED <<pkg, glance, extracted, pkgInst, pkgReq, pkgCasts, fanout, uploads, counted, pkgSplit,
                        pkgCut, usageRaced>>
  BY <1>2 DEF _onboard_vnf_package
<1>4. s \in CondSteps /\ s # "idle"  BY <1>3 DEF CondSteps
<1>5. GoesOn(k, q, s)  BY <1>2, <1>3, <1>4, CondStep
<1>6. /\ q \in Pkgs /\ PkgOk(q) /\ pkg[q].state # "none"
      /\ pkgCond' \in [PkgConductors -> CondRow]
      /\ \A steps : CondIn(k, q, steps)' <=> s \in steps
      /\ Active(k, q) /\ Active(k, q)'
      /\ \A j \in PkgConductors : j # k => pkgCond'[j] = pkgCond[j]
      /\ \A j \in PkgConductors : \A steps : j # k => (CondIn(j, q, steps)' <=> CondIn(j, q, steps))
      /\ \A j \in PkgConductors : Active(j, q)' <=> Active(j, q)
      /\ Solo(k, q) => Solo(k, q)'
      /\ \A j \in PkgConductors : \/ pkgCond'[j] = pkgCond[j]
                                  \/ /\ pkgCond[j].pc = "idle" \/ pkgCond[j].p = q
                                     /\ pkgCond'[j].pc = "idle" \/ pkgCond'[j].p = q
  BY <1>4, <1>5 DEF GoesOn
<1>7. PkgTypes'
  <2>1. vnfdRow' \subseteq Pkgs /\ flavours' \subseteq Pkgs  BY <1>1, <1>3, <1>6 DEF PkgTypes
  <2>2. QED  BY <1>1, <1>3, <1>6, <2>1 DEF PkgTypes
<1>8. InsertsOwn' /\ OneRow'  BY <1>1, <1>3 DEF InsertsOwn, OneRow
<1>9. \A j \in PkgConductors : Entries(j)' = Entries(j)  BY <1>3 DEF Entries
<1>10. Only(q)
  <2>1. \A x \in Pkgs : x # q => (x \in vnfdRow' <=> x \in vnfdRow) /\ (x \in flavours' <=> x \in flavours)
    BY <1>3
  <2>2. QED  BY <1>3, <1>6, <1>9, <2>1 DEF Only
<1>11. \A steps : CondIn(k, q, steps) <=> "onboard" \in steps  BY <1>2, <1>3 DEF CondIn
<1>12. \A j \in PkgConductors : LoadEntry(j, q)' <=> LoadEntry(j, q)  BY <1>9 DEF LoadEntry
<1>13. ASSUME Live(q), LiveInv(q)  PROVE LiveInv(q)'
  <2>1. OneUpload(q)'
    <3>1. OneUpload(q)  BY <1>13 DEF LiveInv
    <3>2. QED  BY <1>3, <3>1 DEF OneUpload, UpReq, UpCast
  <2>2. pkg[q].onboarding = "PROCESSING"
    <3>1. pkg[q].onboarding \in Onboarding  BY <1>1, <1>6, PkgRows DEF PkgRow, Onboarding
    <3>2. CondIn(k, q, {"onboard", "save"})  BY <1>11
    <3>3. ~CreatedInv(q)  BY <3>2 DEF CreatedInv
    <3>4. QED  BY <1>6, <1>13, <3>1, <3>3, AtWork DEF LiveInv
  <2>3. ProcessingInv(q)  BY <1>13, <2>2 DEF LiveInv
  <2>4. Solo(k, q) /\ CountedLoads(q)
    <3>1. CondIn(k, q, {"onboard", "save"})  BY <1>11
    <3>2. QED  BY <2>3, <3>1, Winner
  <2>5. OnlyLoads(q)' /\ CountedLoads(q)'
    BY <1>3, <1>9, <2>3, <2>4 DEF ProcessingInv, OnlyLoads, CountedLoads
  <2>6. \A j \in PkgConductors : CondIn(j, q, {"load", "count"})' => FALSE
    <3>1. ~CondIn(k, q, {"load", "count"})'  BY <1>3, <1>6
    <3>2. \A j \in PkgConductors : j # k => ~Active(j, q)'  BY <1>6, <2>4 DEF Solo
    <3>3. QED  BY <3>1, <3>2 DEF CondIn, Active
  <2>7. \A i \in Number : Loading(q, i)' => Loading(q, i)  BY <1>9, <2>6 DEF Loading
  <2>8. \A m, i \in Number : Loading(q, m)' /\ Loading(q, i)' => m = i  BY <2>3, <2>7 DEF ProcessingInv
  <2>9. \A j \in PkgConductors : LoadEntry(j, q)' \/ CondIn(j, q, {"load", "revert"})' \/ <<j, q>> \in extracted'
    <3>1. LoadEntry(k, q) \/ <<k, q>> \in extracted
      <4>1. ~CondIn(k, q, {"load", "revert"})  BY <1>11
      <4>2. QED  BY <2>3, <4>1 DEF ProcessingInv
    <3>2. ASSUME NEW j \in PkgConductors, j # k
          PROVE  LoadEntry(j, q)' \/ CondIn(j, q, {"load", "revert"})' \/ <<j, q>> \in extracted'
      BY <1>3, <1>6, <1>12, <2>3, <3>2 DEF ProcessingInv
    <3>3. QED  BY <1>3, <1>12, <3>1, <3>2
  <2>10. \A j \in PkgConductors : ~CondIn(j, q, {"save"})
    <3>1. ~CondIn(k, q, {"save"})  BY <1>11
    <3>2. QED  BY <2>4, <3>1 DEF Solo, CondIn, Active
  <2>11. q \notin vnfdRow /\ q \notin flavours  BY <2>3, <2>10 DEF ProcessingInv
  <2>12. /\ q \in vnfdRow' \/ q \in flavours' => \E j \in PkgConductors : CondIn(j, q, {"save"})'
         /\ \A j \in PkgConductors : CondIn(j, q, {"save"})' => q \in vnfdRow' /\ q \in flavours'
    <3>1. CASE s = "save"
      <4>1. CondIn(k, q, {"save"})'  BY <1>6, <3>1
      <4>2. q \in vnfdRow' /\ q \in flavours'  BY <1>3, <3>1
      <4>3. QED  BY <4>1, <4>2
    <3>2. CASE s = "revert"
      <4>1. q \notin vnfdRow' /\ q \notin flavours'  BY <1>3, <2>11, <3>2
      <4>2. ~CondIn(k, q, {"save"})'  BY <1>6, <3>2
      <4>3. QED  BY <1>6, <2>10, <4>1, <4>2
    <3>3. QED  BY <1>3, <3>1, <3>2
  <2>13. Won(q)'
    <3>1. CondIn(k, q, {"onboard", "save", "revert"})'  BY <1>3, <1>6
    <3>2. QED  BY <1>6, <2>4, <2>5, <3>1 DEF Won
  <2>14. ProcessingInv(q)'  BY <1>3, <1>6, <2>3, <2>5, <2>8, <2>9, <2>12, <2>13 DEF ProcessingInv
  <2>15. QED  BY <1>3, <2>1, <2>2, <2>14 DEF LiveInv
<1>14. GoneRow(q) => GoneRow(q)'
  <2>1. CondIn(k, q, {"onboard", "save"})  BY <1>11
  <2>2. QED  BY <1>3, <2>1 DEF GoneRow
<1>15. ~GoneInv(q)
  <2>1. CondIn(k, q, {"onboard", "save"})  BY <1>11
  <2>2. QED  BY <2>1 DEF GoneInv
<1>16. PkgOk(q)'  BY <1>3, <1>6, <1>13, <1>14, <1>15 DEF PkgOk, Live
<1>17. QED  BY <1>7, <1>8, <1>10, <1>16, OnlyPackage

\* The row is ONBOARDED and ENABLED, or the upload is reverted.
LEMMA SaveStep ==
    ASSUME PkgInv, NEW k \in PkgConductors, save_onboarded(k)
    PROVE  PkgInv'
PROOF
<1>1. PkgTypes /\ InsertsOwn /\ OneRow  BY DEF PkgInv
<1>2. PICK q : q = pkgCond[k].p  OBVIOUS
<1>3. PICK s : s = IF Live(q) THEN "idle" ELSE "revert"  OBVIOUS
<1>4. /\ pkgCond[k].pc = "save" /\ CondGoes(k, s)
      /\ Live(q) => pkg' = [pkg EXCEPT ![q].onboarding = "ONBOARDED", ![q].operational = "ENABLED"]
      /\ ~Live(q) => UNCHANGED pkg
      /\ UNCHANGED <<vnfdRow, flavours, glance, extracted, pkgInst, pkgReq, pkgCasts, fanout, uploads, counted,
                     pkgSplit, pkgCut, usageRaced>>
  BY <1>2, <1>3 DEF save_onboarded
<1>5. GoesOn(k, q, s)
  <2>1. s \in CondSteps  BY <1>3 DEF CondSteps
  <2>2. QED  BY <1>2, <1>4, <2>1, CondStep
<1>6. /\ q \in Pkgs /\ PkgOk(q) /\ pkg[q].state # "none"
      /\ pkgCond' \in [PkgConductors -> CondRow]
      /\ \A steps : CondIn(k, q, steps)' <=> s \in steps
      /\ Active(k, q) /\ (Active(k, q)' <=> s # "idle")
      /\ \A j \in PkgConductors : \A steps : j # k => (CondIn(j, q, steps)' <=> CondIn(j, q, steps))
      /\ \A j \in PkgConductors : j # k => (Active(j, q)' <=> Active(j, q))
      /\ \A j \in PkgConductors : \/ pkgCond'[j] = pkgCond[j]
                                  \/ /\ pkgCond[j].pc = "idle" \/ pkgCond[j].p = q
                                     /\ pkgCond'[j].pc = "idle" \/ pkgCond'[j].p = q
  BY <1>5 DEF GoesOn
<1>7. /\ pkg' \in [Pkgs -> PkgRow]
      /\ pkg'[q].state = pkg[q].state
      /\ Live(q) => pkg'[q].onboarding = "ONBOARDED"
      /\ ~Live(q) => pkg'[q] = pkg[q]
      /\ \A x \in Pkgs : x # q => pkg'[x] = pkg[x]
  <2>1. CASE Live(q)  BY <1>1, <1>4, <1>6, <2>1, OnboardedMoves
  <2>2. CASE ~Live(q)
    <3>1. UNCHANGED pkg  BY <1>4, <2>2
    <3>2. QED  BY <1>1, <2>2, <3>1, PkgRows
  <2>3. QED  BY <2>1, <2>2
<1>8. PkgTypes'  BY <1>1, <1>4, <1>6, <1>7 DEF PkgTypes
<1>9. InsertsOwn' /\ OneRow'  BY <1>1, <1>4 DEF InsertsOwn, OneRow
<1>10. \A j \in PkgConductors : Entries(j)' = Entries(j)  BY <1>4 DEF Entries
<1>11. Only(q)  BY <1>4, <1>6, <1>7, <1>10 DEF Only
<1>12. \A steps : CondIn(k, q, steps) <=> "save" \in steps  BY <1>2, <1>4 DEF CondIn
<1>13. CondIn(k, q, {"onboard", "save"})  BY <1>12
<1>14. \A j \in PkgConductors : LoadEntry(j, q)' <=> LoadEntry(j, q)  BY <1>10 DEF LoadEntry
<1>15. ASSUME Live(q), LiveInv(q)  PROVE LiveInv(q)'
  <2>1. pkg[q].onboarding = "PROCESSING"
    <3>1. pkg[q].onboarding \in Onboarding  BY <1>1, <1>6, PkgRows DEF PkgRow, Onboarding
    <3>2. ~CreatedInv(q)  BY <1>13 DEF CreatedInv
    <3>3. QED  BY <1>6, <1>15, <3>1, <3>2, AtWork DEF LiveInv
  <2>2. ProcessingInv(q)  BY <1>15, <2>1 DEF LiveInv
  <2>3. Solo(k, q) /\ CountedLoads(q)  BY <1>13, <2>2, Winner
  <2>4. OneUpload(q)'
    <3>1. OneUpload(q)  BY <1>15 DEF LiveInv
    <3>2. /\ \A u \in PkgReqs : ~UpReq(u, q) /\ ~(pkgReq[u].pc = "mark" /\ pkgReq[u].p = q)
          /\ \A c \in pkgCasts : c.p # q
      BY <2>1, <3>1 DEF OneUpload
    <3>3. /\ \A u \in PkgReqs : ~UpReq(u, q)' /\ ~(pkgReq'[u].pc = "mark" /\ pkgReq'[u].p = q)
          /\ \A c \in pkgCasts' : c.p # q
          /\ \A c \in PkgCast : ~UpCast(c, q)'
      BY <1>4, <3>2 DEF UpReq, UpCast
    <3>4. QED  BY <3>3 DEF OneUpload
  <2>5. s = "idle"  BY <1>3, <1>15
  <2>6. \A j \in PkgConductors : ~Active(j, q)'  BY <1>6, <2>3, <2>5 DEF Solo
  <2>7. OnlyLoads(q)' /\ CountedLoads(q)'
    BY <1>4, <1>10, <2>2, <2>3 DEF ProcessingInv, OnlyLoads, CountedLoads
  <2>8. q \in glance /\ q \in vnfdRow /\ q \in flavours
    <3>1. CondIn(k, q, {"save"})  BY <1>12
    <3>2. QED  BY <2>2, <3>1 DEF ProcessingInv
  <2>9. \A j \in PkgConductors : LoadEntry(j, q)' \/ <<j, q>> \in extracted'
    <3>1. \A j \in PkgConductors : ~CondIn(j, q, {"load", "revert"})
      <4>1. ~CondIn(k, q, {"load", "revert"})  BY <1>12
      <4>2. \A j \in PkgConductors : j # k => ~Active(j, q)  BY <2>3 DEF Solo
      <4>3. QED  BY <4>1, <4>2 DEF CondIn, Active
    <3>2. QED  BY <1>4, <1>14, <2>2, <3>1 DEF ProcessingInv
  <2>10. OnboardedInv(q)'  BY <1>4, <2>6, <2>7, <2>8, <2>9 DEF OnboardedInv
  <2>11. QED  BY <1>7, <1>15, <2>4, <2>10 DEF LiveInv
<1>16. ASSUME ~Live(q)  PROVE GoneRow(q) => GoneRow(q)'
  BY <1>4, <1>7, <1>13, <1>16 DEF GoneRow
<1>17. ~GoneInv(q)  BY <1>13 DEF GoneInv
<1>18. PkgOk(q)'  BY <1>4, <1>6, <1>7, <1>15, <1>16, <1>17 DEF PkgOk, Live
<1>19. QED  BY <1>8, <1>9, <1>11, <1>18, OnlyPackage

\* revert_upload_vnf_package: the CSAR and the rows are deleted, the row CREATED again.
LEMMA RevertStep ==
    ASSUME PkgInv, NEW k \in PkgConductors, revert_upload_vnf_package(k)
    PROVE  PkgInv'
PROOF
<1>1. PkgTypes /\ InsertsOwn /\ OneRow  BY DEF PkgInv
<1>2. PICK q : q = pkgCond[k].p  OBVIOUS
<1>3. PICK n : n = pkgCond[k].n  OBVIOUS
<1>4. /\ pkgCond[k].pc = "revert" /\ CondGoes(k, "idle")
      /\ glance' = glance \ {q}
      /\ Fanout("delete", q, n)
      /\ Live(q) => flavours' = flavours \ {q} /\ pkg' = [pkg EXCEPT ![q].onboarding = "CREATED"]
      /\ ~Live(q) => UNCHANGED <<flavours, pkg>>
      /\ UNCHANGED <<vnfdRow, extracted, pkgInst, pkgReq, pkgCasts, uploads, counted, pkgSplit, pkgCut, usageRaced>>
  BY <1>2, <1>3 DEF revert_upload_vnf_package
<1>5. GoesOn(k, q, "idle")
  <2>1. "idle" \in CondSteps  BY DEF CondSteps
  <2>2. QED  BY <1>2, <1>4, <2>1, CondStep
<1>6. /\ q \in Pkgs /\ PkgOk(q) /\ pkg[q].state # "none"
      /\ pkgCond' \in [PkgConductors -> CondRow]
      /\ n \in Number
      /\ \A steps : CondIn(k, q, steps)' <=> "idle" \in steps
      /\ Active(k, q)
      /\ \A j \in PkgConductors : \A steps : j # k => (CondIn(j, q, steps)' <=> CondIn(j, q, steps))
      /\ \A j \in PkgConductors : \/ pkgCond'[j] = pkgCond[j]
                                  \/ /\ pkgCond[j].pc = "idle" \/ pkgCond[j].p = q
                                     /\ pkgCond'[j].pc = "idle" \/ pkgCond'[j].p = q
  BY <1>3, <1>5 DEF GoesOn
<1>7. PICK e : e = [m |-> "delete", p |-> q, n |-> n]  OBVIOUS
<1>8. /\ fanout' \in [PkgConductors -> Seq(FanCast)]
      /\ \A j \in PkgConductors : Entries(j)' = Entries(j) \cup {e}
      /\ e.p = q
  BY <1>1, <1>4, <1>6, <1>7, FanoutMoves
<1>9. /\ pkg' \in [Pkgs -> PkgRow]
      /\ pkg'[q].state = pkg[q].state
      /\ Live(q) => pkg'[q].onboarding = "CREATED"
      /\ ~Live(q) => pkg'[q] = pkg[q]
      /\ \A x \in Pkgs : x # q => pkg'[x] = pkg[x]
  <2>1. CASE Live(q)
    <3>1. "CREATED" \in Onboarding  BY DEF Onboarding
    <3>2. QED  BY <1>1, <1>4, <1>6, <2>1, <3>1, OnboardingMoves
  <2>2. CASE ~Live(q)
    <3>1. UNCHANGED pkg  BY <1>4, <2>2
    <3>2. QED  BY <1>1, <2>2, <3>1, PkgRows
  <2>3. QED  BY <2>1, <2>2
<1>10. PkgTypes'
  <2>1. flavours' \subseteq Pkgs /\ glance' \subseteq Pkgs  BY <1>1, <1>4 DEF PkgTypes
  <2>2. QED  BY <1>1, <1>4, <1>6, <1>8, <1>9, <2>1 DEF PkgTypes
<1>11. InsertsOwn' /\ OneRow'  BY <1>1, <1>4 DEF InsertsOwn, OneRow
<1>12. Only(q)
  <2>1. \A x \in Pkgs : x # q => (x \in glance' <=> x \in glance) /\ (x \in flavours' <=> x \in flavours)
    BY <1>4
  <2>2. \A j \in PkgConductors : \A x \in FanCast : x.p # q => (x \in Entries(j)' <=> x \in Entries(j))  BY <1>8
  <2>3. QED  BY <1>4, <1>6, <1>9, <2>1, <2>2 DEF Only
<1>13. \A steps : CondIn(k, q, steps) <=> "revert" \in steps  BY <1>2, <1>4 DEF CondIn
<1>14. \A j \in PkgConductors : CondIn(j, q, {"onboard", "save"})' <=> CondIn(j, q, {"onboard", "save"})
  <2>1. ~CondIn(k, q, {"onboard", "save"}) /\ ~CondIn(k, q, {"onboard", "save"})'  BY <1>6, <1>13
  <2>2. QED  BY <1>6, <2>1
<1>15. ASSUME Live(q), LiveInv(q)  PROVE LiveInv(q)'
  <2>1. pkg[q].onboarding \in {"CREATED", "PROCESSING"}
    <3>1. pkg[q].onboarding \in Onboarding  BY <1>1, <1>6, PkgRows DEF PkgRow, Onboarding
    <3>2. QED  BY <1>6, <1>15, <3>1, AtWork
  <2>2. OneUpload(q)'
    <3>1. OneUpload(q)  BY <1>15 DEF LiveInv
    <3>2. /\ \A u \in PkgReqs : ~UpReq(u, q)
          /\ \A c \in pkgCasts : c.p # q
      BY <2>1, <3>1 DEF OneUpload
    <3>3. /\ \A u \in PkgReqs : ~UpReq(u, q)'
          /\ \A c \in pkgCasts' : c.p # q
          /\ \A c \in PkgCast : ~UpCast(c, q)'
      BY <1>4, <3>2 DEF UpReq, UpCast
    <3>4. QED  BY <1>9, <1>15, <3>3 DEF OneUpload
  <2>3. q \notin vnfdRow /\ \A j \in PkgConductors : ~CondIn(j, q, {"onboard", "save"})
    <3>1. CASE pkg[q].onboarding = "CREATED"  BY <1>15, <3>1 DEF LiveInv, CreatedInv
    <3>2. CASE pkg[q].onboarding = "PROCESSING"
      <4>1. ProcessingInv(q)  BY <1>15, <3>2 DEF LiveInv
      <4>2. ASSUME NEW j \in PkgConductors, CondIn(j, q, {"onboard", "save"})  PROVE FALSE
        <5>1. Solo(j, q)  BY <4>1, <4>2, Winner
        <5>2. j = k  BY <1>6, <5>1 DEF Solo
        <5>3. QED  BY <1>13, <4>2, <5>2
      <4>3. \A j \in PkgConductors : ~CondIn(j, q, {"save"})  BY <4>2 DEF CondIn
      <4>4. q \notin vnfdRow  BY <4>1, <4>3 DEF ProcessingInv
      <4>5. QED  BY <4>2, <4>4
    <3>3. QED  BY <2>1, <3>1, <3>2
  <2>4. CreatedInv(q)'  BY <1>4, <1>14, <1>15, <2>3 DEF CreatedInv
  <2>5. QED  BY <1>9, <1>15, <2>2, <2>4 DEF LiveInv
<1>16. ASSUME ~Live(q)  PROVE (GoneRow(q) => GoneRow(q)') /\ (GoneInv(q) => GoneInv(q)')
  <2>1. GoneRow(q) => GoneRow(q)'  BY <1>4, <1>9, <1>14, <1>16 DEF GoneRow
  <2>2. q \notin glance'  BY <1>4
  <2>3. GoneInv(q) => GoneInv(q)'  BY <1>4, <1>14, <2>2 DEF GoneInv
  <2>4. QED  BY <2>1, <2>3
<1>17. PkgOk(q)'  BY <1>4, <1>6, <1>9, <1>15, <1>16 DEF PkgOk, Live
<1>18. QED  BY <1>10, <1>11, <1>12, <1>17, OnlyPackage

\* The invariant holds in an empty system ...
LEMMA PkgStart ==
    ASSUME VnfPackagesInit
    PROVE  PkgInv
PROOF
<1> DEFINE r == [NewPkg EXCEPT !.state = "none"]
           c == [pc |-> "idle", p |-> CHOOSE p \in Pkgs : TRUE, n |-> 0]
<1>1. r \in PkgRow /\ r.state = "none"  BY DEF NewPkg, PkgRow
<1>2. c \in CondRow /\ c.pc = "idle"
  <2>1. (CHOOSE p \in Pkgs : TRUE) \in Pkgs  BY VnfPackagesAssumption
  <2>2. 0 \in Number  BY VnfPackagesAssumption DEF Number
  <2>3. QED  BY <2>1, <2>2 DEF CondRow, CondSteps
<1>3. /\ pkg = [p \in Pkgs |-> r]
      /\ vnfdRow = {} /\ flavours = {} /\ glance = {} /\ extracted = {} /\ pkgInst = {}
      /\ pkgReq = [u \in PkgReqs |-> NoReq]
      /\ pkgCond = [k \in PkgConductors |-> c]
      /\ pkgCasts = {}
      /\ fanout = [k \in PkgConductors |-> <<>>]
      /\ uploads = 0
      /\ counted = {} /\ pkgSplit = {} /\ pkgCut = {} /\ usageRaced = {}
  BY DEF VnfPackagesInit
<1> HIDE DEF r, c
<1>4. PkgTypes
  <2>1. uploads \in Number  BY <1>3, VnfPackagesAssumption DEF Number
  <2>2. fanout \in [PkgConductors -> Seq(FanCast)]  BY <1>3
  <2>3. pkgReq \in [PkgReqs -> PkgRequest]  BY <1>3, IdleReq
  <2>4. pkg \in [Pkgs -> PkgRow] /\ pkgCond \in [PkgConductors -> CondRow]  BY <1>1, <1>2, <1>3
  <2>5. QED  BY <1>3, <2>1, <2>2, <2>3, <2>4 DEF PkgTypes
<1>5. OneRow /\ InsertsOwn  BY <1>3, IdleReq DEF OneRow, InsertsOwn, OwnPackage
<1>6. ASSUME NEW p \in Pkgs  PROVE PkgOk(p)
  <2>1. pkg[p].state = "none"  BY <1>1, <1>3
  <2>2. \A k \in PkgConductors : Entries(k) = {}
    <3>1. \A k \in PkgConductors : DOMAIN fanout[k] = {}  BY <1>3
    <3>2. QED  BY <3>1 DEF Entries
  <2>3. \A k \in PkgConductors : ~Active(k, p)  BY <1>2, <1>3 DEF Active
  <2>4. NoneInv(p)  BY <1>3, <2>2, <2>3, IdleReq DEF NoneInv, NoConductor
  <2>5. QED  BY <2>1, <2>4 DEF PkgOk, Live
<1>7. QED  BY <1>4, <1>5, <1>6 DEF PkgInv

\* ... in a step that changes nothing ...
LEMMA PkgStutter ==
    ASSUME PkgInv, UNCHANGED pkgVars
    PROVE  PkgInv'
PROOF
<1>1. PkgTypes /\ InsertsOwn /\ OneRow  BY DEF PkgInv
<1>2. UNCHANGED <<pkg, vnfdRow, flavours, glance, extracted, pkgInst, pkgReq, pkgCond, pkgCasts,
                  fanout, uploads, counted, pkgSplit, pkgCut, usageRaced>>
  BY DEF pkgVars
<1>3. PkgTypes' /\ InsertsOwn' /\ OneRow'  BY <1>1, <1>2 DEF PkgTypes, InsertsOwn, OneRow
<1>4. ASSUME NEW p \in Pkgs  PROVE Same(p)
  <2>1. \A j \in PkgConductors : Entries(j)' = Entries(j)  BY <1>2 DEF Entries
  <2>2. QED  BY <1>2, <2>1 DEF Same, Active
<1>5. QED  BY <1>3, <1>4, NoPackage

\* ... and after every step.
LEMMA PkgInductive ==
    ASSUME PkgInv, [VnfPackagesNext]_pkgVars
    PROVE  PkgInv'
PROOF
<1>1. ASSUME NEW p \in Pkgs, pkg_create(p)  PROVE PkgInv'  BY <1>1, NewPkgStep
<1>2. ASSUME NEW u \in PkgReqs, NEW p \in Pkgs, NEW from \in {"content", "uri"}, upload_read(u, p, from)
      PROVE  PkgInv'
  BY <1>2, UploadReadStep
<1>3. ASSUME NEW u \in PkgReqs, NEW p \in Pkgs, patch_read(u, p) \/ pkg_delete(u, p)  PROVE PkgInv'
  BY <1>3, PatchSteps
<1>4. ASSUME NEW u \in PkgReqs, NEW p \in Pkgs, NEW i \in PkgInsts, NEW s \in Stacks, inst_create(u, i, s, p)
      PROVE  PkgInv'
  BY <1>4, CreateStep
<1>5. ASSUME NEW u \in PkgReqs, upload_mark(u)  PROVE PkgInv'  BY <1>5, MarkStep
<1>6. ASSUME NEW u \in PkgReqs, store_csar(u)  PROVE PkgInv'  BY <1>6, StoreStep
<1>7. ASSUME NEW u \in PkgReqs, upload_stored(u)  PROVE PkgInv'  BY <1>7, StoredStep
<1>8. ASSUME NEW u \in PkgReqs, patch_save(u)  PROVE PkgInv'  BY <1>8, PatchSteps
<1>9. ASSUME NEW u \in PkgReqs, pkg_destroy(u)  PROVE PkgInv'  BY <1>9, DestroyStep
<1>10. ASSUME NEW u \in PkgReqs, inst_insert(u)  PROVE PkgInv'  BY <1>10, InsertStep
<1>11. ASSUME NEW u \in PkgReqs, usage_save(u)  PROVE PkgInv'  BY <1>11, UsageSaveStep
<1>12. ASSUME NEW u \in PkgReqs, NEW p \in Pkgs, usage_read(u, p)  PROVE PkgInv'  BY <1>12, UsageReadStep
<1>13. ASSUME NEW u \in PkgReqs, NEW p \in Pkgs, NEW i \in pkgInst, inst_delete(u, i, p)  PROVE PkgInv'
  BY <1>13, DeleteInstStep
<1>14. ASSUME NEW c \in pkgCasts, conductor_upload_content(c)  PROVE PkgInv'  BY <1>14, UploadContentStep
<1>15. ASSUME NEW c \in pkgCasts, conductor_upload_from_uri(c)  PROVE PkgInv'  BY <1>15, UploadUriStep
<1>16. ASSUME NEW c \in pkgCasts, conductor_delete(c)  PROVE PkgInv'  BY <1>16, DeletePkgStep
<1>17. ASSUME NEW k \in PkgConductors, load_csar_data(k)  PROVE PkgInv'  BY <1>17, LoadStep
<1>18. ASSUME NEW k \in PkgConductors, extract_csar(k)  PROVE PkgInv'  BY <1>18, ExtractStep
<1>19. ASSUME NEW k \in PkgConductors, count_down(k)  PROVE PkgInv'  BY <1>19, CountStep
<1>20. ASSUME NEW k \in PkgConductors, check_downloading(k)  PROVE PkgInv'  BY <1>20, CheckStep
<1>21. ASSUME NEW k \in PkgConductors, _onboard_vnf_package(k)  PROVE PkgInv'  BY <1>21, OnboardStep
<1>22. ASSUME NEW k \in PkgConductors, save_onboarded(k)  PROVE PkgInv'  BY <1>22, SaveStep
<1>23. ASSUME NEW k \in PkgConductors, revert_upload_vnf_package(k)  PROVE PkgInv'  BY <1>23, RevertStep
<1>24. ASSUME NEW k \in PkgConductors, delete_csar(k)  PROVE PkgInv'  BY <1>24, DeleteCsarStep
<1>25. ASSUME NEW k \in PkgConductors, _run_cleanup_vnf_packages(k)  PROVE PkgInv'  BY <1>25, CleanupStep
<1>26. CASE UNCHANGED pkgVars  BY <1>26, PkgStutter
<1>27. CASE VnfPackagesNext
  BY <1>27, <1>1, <1>2, <1>3, <1>4, <1>5, <1>6, <1>7, <1>8, <1>9, <1>10, <1>11, <1>12, <1>13, <1>14, <1>15, <1>16,
     <1>17, <1>18, <1>19, <1>20, <1>21, <1>22, <1>23, <1>24, <1>25
     DEF VnfPackagesNext
<1>28. QED  BY <1>26, <1>27

\* The inductive invariant holds for any number of packages, conductors, requests,
\* instances and uploads.
THEOREM PkgInvariant == VnfPackagesSpec => []PkgInv
PROOF
<1>1. VnfPackagesInit => PkgInv  BY PkgStart
<1>2. PkgInv /\ [VnfPackagesNext]_pkgVars => PkgInv'  BY PkgInductive
<1>3. QED  BY <1>1, <1>2, PTL DEF VnfPackagesSpec

\* The rows, threads and queues of the package service have their types.
THEOREM VnfPackagesTyped == VnfPackagesSpec => []VnfPackagesTypeOK
PROOF
<1>1. PkgInv => VnfPackagesTypeOK
  <2> SUFFICES ASSUME PkgTypes  PROVE VnfPackagesTypeOK
    BY DEF PkgInv
  <2>1. fanout \in [PkgConductors -> Seq(FanCast)]  BY DEF PkgTypes
  <2>2. \A k \in PkgConductors : fanout[k] \in Seq([m : {"load", "delete"}, p : Pkgs, n : 0..MaxUploads])
    BY <2>1 DEF FanCast, Number
  <2>3. pkgCond \in [PkgConductors -> [pc : {"idle", "load", "count", "check", "onboard", "save", "revert"},
                                       p : Pkgs, n : 0..MaxUploads]]
    BY DEF PkgTypes, CondRow, CondSteps, Number
  <2>4. QED  BY <2>2, <2>3 DEF PkgTypes, VnfPackagesTypeOK, PkgInstance
<1>2. QED  BY <1>1, PkgInvariant, PTL

\* A package that is ONBOARDED has its CSAR, its rows and, at every conductor that is
\* not still to load it, its directory: of the conductors that count themselves out of
\* downloading, one finds 0, and it inserts the rows before it saves the row.  Uploads or downloads
\* that overlapped (pkgSplit) are the exception, here and below.
THEOREM OnboardedIsComplete == VnfPackagesSpec => []OnboardedComplete
PROOF
<1>1. PkgInv => OnboardedComplete
  <2> SUFFICES ASSUME PkgInv, NEW p \in Pkgs \ pkgSplit, Live(p), pkg[p].onboarding = "ONBOARDED"
               PROVE  /\ p \in glance /\ p \in vnfdRow /\ p \in flavours
                      /\ \A k \in PkgConductors : Done(k, p) => <<k, p>> \in extracted
    BY DEF OnboardedComplete
  <2>1. OnboardedInv(p)  BY DEF PkgInv, PkgOk, LiveInv
  <2>2. \A k \in PkgConductors : Done(k, p) => ~LoadEntry(k, p)  BY DEF Done, LoadEntry, Entries
  <2>3. QED  BY <2>1, <2>2 DEF OnboardedInv
<1>2. QED  BY <1>1, PkgInvariant, PTL

\* A package that is CREATED again after a failed upload leaves nothing in the store or
\* in the tables for the next upload to collide with: revert_upload_vnf_package deletes
\* them before it saves the row.
THEOREM UploadIsRetryable == VnfPackagesSpec => []UploadRetryable
PROOF
<1>1. PkgInv => UploadRetryable
  BY DEF PkgInv, PkgOk, LiveInv, CreatedInv, UploadRetryable
<1>2. QED  BY <1>1, PkgInvariant, PTL

\* A deleted package leaves nothing behind, or a cast or a conductor that will clean it
\* up: delete casts to the conductors after it destroys the row.
THEOREM DeletedIsClean == VnfPackagesSpec => []DeletedClean
PROOF
<1>1. PkgInv => DeletedClean
  <2> SUFFICES ASSUME PkgInv, NEW p \in Pkgs \ (pkgCut \cup pkgSplit), pkg[p].state = "deleted", Quiet(p)
               PROVE  p \notin glance /\ p \notin vnfdRow
    BY DEF DeletedClean
  <2>1. GoneInv(p)  BY DEF PkgInv, PkgOk
  <2>2. \A c \in pkgCasts : c.p # p  BY DEF Quiet
  <2>3. \A k \in PkgConductors : ~LoadEntry(k, p) /\ ~Active(k, p)
    BY DEF Quiet, Done, LoadEntry, Active, Entries
  <2>4. QED  BY <2>1, <2>2, <2>3 DEF GoneInv
<1>2. QED  BY <1>1, PkgInvariant, PTL

----------------------------------------------------------------------------
\* Requests that have nothing to do with instances.
NoUsage == {"idle", "mark", "store", "stored", "patch"}
\* A step does not touch the requests on instances.
ReqsKept ==
    \A u \in PkgReqs : pkgReq'[u] = pkgReq[u] \/ (pkgReq[u].pc \in NoUsage /\ pkgReq'[u].pc \in NoUsage)

\* A package with instances, or with a request on one, is ONBOARDED.
LEMMA Counting ==
    ASSUME PkgInv, NEW p \in Pkgs, p \notin pkgSplit, UsageInv(p), HasInst(p) \/ \E u \in PkgReqs : InstReqOn(u, p)
    PROVE  Live(p) /\ pkg[p].onboarding = "ONBOARDED" /\ p \in vnfdRow
PROOF
<1>1. Live(p) /\ pkg[p].onboarding = "ONBOARDED"  BY DEF UsageInv, UsageOf
<1>2. OnboardedInv(p)  BY <1>1 DEF PkgInv, PkgOk, LiveInv
<1>3. QED  BY <1>1, <1>2 DEF OnboardedInv

\* A step that leaves the instances of p, its usage state and the requests alone ...
LEMMA UsageKept ==
    ASSUME NEW p \in Pkgs, UsageInv(p), Live(p)' <=> Live(p), pkg'[p].usage = pkg[p].usage,
           Live(p) /\ pkg[p].onboarding = "ONBOARDED" => pkg'[p].onboarding = "ONBOARDED",
           UNCHANGED pkgInst, ReqsKept
    PROVE  UsageInv(p)'
PROOF
<1>1. \A u \in PkgReqs : pkgReq[u].pc \in InstReqs \/ pkgReq'[u].pc \in InstReqs => pkgReq'[u] = pkgReq[u]
  BY DEF ReqsKept, NoUsage, InstReqs
<1>2. \A u \in PkgReqs : pkgReq[u].pc = "destroy" \/ pkgReq'[u].pc = "destroy" => pkgReq'[u] = pkgReq[u]
  BY DEF ReqsKept, NoUsage
<1>3. \A u \in PkgReqs : InstReqOn(u, p)' <=> InstReqOn(u, p)  BY <1>1 DEF InstReqOn
<1>4. \A u \in PkgReqs : pkgReq'[u].pc \in InstReqs <=> pkgReq[u].pc \in InstReqs  BY <1>1
<1>5. \A u \in PkgReqs : InstReqOn(u, p) => pkgReq'[u] = pkgReq[u]  BY <1>1 DEF InstReqOn
<1>6. HasInst(p)' <=> HasInst(p)  BY DEF HasInst
<1>7. ~Live(p)' => ~HasInst(p)' /\ \A u \in PkgReqs : ~InstReqOn(u, p)'  BY <1>3, <1>6 DEF UsageInv
<1>8. \A u \in PkgReqs : pkgReq'[u].pc = "destroy" /\ pkgReq'[u].p = p =>
          ~HasInst(p)' /\ \A v \in PkgReqs : ~InstReqOn(v, p)'
  BY <1>2, <1>3, <1>6 DEF UsageInv
<1>9. HasInst(p)' => pkg'[p].onboarding = "ONBOARDED"  BY <1>6 DEF UsageInv
<1>10. Live(p)' /\ (\A u \in PkgReqs : ~InstReqOn(u, p)') => (HasInst(p)' <=> pkg'[p].usage = "IN_USE")
  BY <1>3, <1>6 DEF UsageInv
<1>11. ASSUME NEW u \in PkgReqs, InstReqOn(u, p)'  PROVE UsageOf(u, p)'
  <2>1. InstReqOn(u, p) /\ pkgReq'[u] = pkgReq[u]  BY <1>3, <1>5, <1>11
  <2>2. Live(p)  BY <2>1 DEF UsageInv
  <2>3. UsageOf(u, p)  BY <2>1 DEF UsageInv
  <2>4. QED  BY <1>4, <1>6, <2>1, <2>2, <2>3 DEF UsageOf
<1>12. QED  BY <1>7, <1>8, <1>9, <1>10, <1>11 DEF UsageInv

\* ... in one package ...
LEMMA UsageUntouched ==
    ASSUME PkgInv, UsagesInv, NEW q \in Pkgs,
           \A x \in Pkgs : x # q => pkg'[x] = pkg[x],
           pkg'[q].state = pkg[q].state, pkg'[q].usage = pkg[q].usage,
           q \in pkgSplit \/ ~Live(q) \/ pkg[q].onboarding # "ONBOARDED" \/ pkg'[q].onboarding = "ONBOARDED",
           UNCHANGED pkgInst, ReqsKept, usageRaced \subseteq usageRaced', pkgSplit \subseteq pkgSplit'
    PROVE  UsagesInv'
PROOF
<1>1. ASSUME NEW p \in Pkgs, p \notin usageRaced', p \notin pkgSplit'  PROVE UsageInv(p)'
  <2>1. p \notin pkgSplit /\ UsageInv(p)  BY <1>1 DEF UsagesInv
  <2>2. Live(p)' <=> Live(p)  BY DEF Live
  <2>3. pkg'[p].usage = pkg[p].usage  OBVIOUS
  <2>4. Live(p) /\ pkg[p].onboarding = "ONBOARDED" => pkg'[p].onboarding = "ONBOARDED"  BY <2>1
  <2>5. QED  BY <2>1, <2>2, <2>3, <2>4, UsageKept
<1>2. QED  BY <1>1 DEF UsagesInv

\* ... or in all of them.
LEMMA UsageElsewhere ==
    ASSUME PkgInv, UsagesInv, UNCHANGED <<pkg, pkgInst, usageRaced>>, ReqsKept, pkgSplit \subseteq pkgSplit'
    PROVE  UsagesInv'
PROOF
<1>1. PICK q : q \in Pkgs  BY VnfPackagesAssumption
<1>2. QED
  <2>1. q \in pkgSplit \/ ~Live(q) \/ pkg[q].onboarding # "ONBOARDED" \/ pkg'[q].onboarding = "ONBOARDED"
    OBVIOUS
  <2>2. QED  BY <1>1, <2>1, UsageUntouched

\* A request that is not on an instance goes on.
LEMMA ReqsUntouched ==
    ASSUME PkgInv, NEW u \in PkgReqs, NEW r, ReqGoes(u, r),
           pkgReq[u].pc \in NoUsage, r.pc \in NoUsage
    PROVE  ReqsKept
BY DEF PkgInv, PkgTypes, ReqGoes, ReqsKept

\* Uploads and updates leave the usage state alone ...
LEMMA UsageRequests ==
    ASSUME PkgInv, UsagesInv, NEW u \in PkgReqs,
           \/ \E p \in Pkgs : patch_read(u, p) \/ \E from \in {"content", "uri"} : upload_read(u, p, from)
           \/ upload_mark(u) \/ store_csar(u) \/ upload_stored(u) \/ patch_save(u)
    PROVE  UsagesInv'
PROOF
<1>1. PkgTypes  BY DEF PkgInv
<1>2. NoReq.pc \in NoUsage  BY DEF NoReq, NoUsage
<1>3. ASSUME NEW p \in Pkgs, patch_read(u, p)  PROVE UsagesInv'
  <2> DEFINE r == [pc |-> "patch", p |-> p,
                   operational |-> IF pkg[p].operational = "ENABLED" THEN "DISABLED" ELSE "ENABLED"]
  <2>1. pkgReq[u].pc \in NoUsage /\ r.pc \in NoUsage /\ ReqGoes(u, r)
    BY <1>3 DEF patch_read, ReqAt, NoUsage
  <2>2. ReqsKept
    <3> HIDE DEF r
    <3>1. QED  BY <2>1, ReqsUntouched
  <2>3. UNCHANGED <<pkg, pkgInst, usageRaced, pkgSplit>>  BY <1>3 DEF patch_read
  <2>4. QED  BY <2>2, <2>3, UsageElsewhere
<1>4. ASSUME NEW p \in Pkgs, NEW from \in {"content", "uri"}, upload_read(u, p, from)  PROVE UsagesInv'
  <2> DEFINE r == [pc |-> "mark", p |-> p, from |-> from, n |-> uploads']
  <2>1. pkgReq[u].pc \in NoUsage /\ r.pc \in NoUsage /\ ReqGoes(u, r)
    BY <1>4 DEF upload_read, ReqAt, NoUsage
  <2>2. ReqsKept
    <3> HIDE DEF r
    <3>1. QED  BY <2>1, ReqsUntouched
  <2>3. UNCHANGED <<pkg, pkgInst, usageRaced, pkgSplit>>  BY <1>4 DEF upload_read
  <2>4. QED  BY <2>2, <2>3, UsageElsewhere
<1>5. ASSUME upload_stored(u)  PROVE UsagesInv'
  <2>1. pkgReq[u].pc \in NoUsage /\ ReqGoes(u, NoReq)  BY <1>5 DEF upload_stored, ReqAt, NoUsage
  <2>2. ReqsKept  BY <1>2, <2>1, ReqsUntouched
  <2>3. UNCHANGED <<pkg, pkgInst, usageRaced, pkgSplit>>  BY <1>5 DEF upload_stored
  <2>4. QED  BY <2>2, <2>3, UsageElsewhere
<1>6. PICK q : q = pkgReq[u].p  OBVIOUS
<1>7. pkgReq[u].pc # "idle" => q \in Pkgs /\ PkgOk(q)  BY <1>1, <1>6, ReqFields DEF PkgInv
<1>8. ASSUME upload_mark(u)  PROVE UsagesInv'
  <2>1. pkgReq[u].pc = "mark"  BY <1>8 DEF upload_mark, ReqAt
  <2>2. pkgReq[u] \in UploadReq  BY <1>1, <2>1, ReqFields DEF UploadSteps
  <2>3. PICK r : ReqGoes(u, r) /\ r.pc \in NoUsage
    <3> DEFINE s == [pkgReq[u] EXCEPT !.pc = "store"]
    <3>1. s.pc \in NoUsage  BY <2>2 DEF UploadReq, NoUsage
    <3>2. ReqGoes(u, s) \/ ReqGoes(u, NoReq)  BY <1>8 DEF upload_mark
    <3> HIDE DEF s
    <3>3. QED  BY <1>2, <3>1, <3>2
  <2>4. ReqsKept
    <3>1. pkgReq[u].pc \in NoUsage  BY <2>1 DEF NoUsage
    <3>2. QED  BY <2>3, <3>1, ReqsUntouched
  <2>5. UNCHANGED <<pkgInst, usageRaced>> /\ pkgSplit \subseteq pkgSplit'  BY <1>8 DEF upload_mark
  <2>6. pkg' = IF Live(q) THEN [pkg EXCEPT ![q].onboarding = "UPLOADING"] ELSE pkg  BY <1>6, <1>8 DEF upload_mark
  <2>7. q \in Pkgs /\ PkgOk(q)  BY <1>7, <2>1
  <2>8. /\ pkg'[q].state = pkg[q].state /\ pkg'[q].usage = pkg[q].usage
        /\ \A x \in Pkgs : x # q => pkg'[x] = pkg[x]
    <3>1. CASE Live(q)
      <4>1. pkg' = [pkg EXCEPT ![q].onboarding = "UPLOADING"]  BY <2>6, <3>1
      <4>2. "UPLOADING" \in Onboarding  BY DEF Onboarding
      <4>3. QED  BY <1>1, <2>7, <4>1, <4>2, OnboardingMoves
    <3>2. CASE ~Live(q)  BY <2>6, <3>2
    <3>3. QED  BY <3>1, <3>2
  <2>9. q \in pkgSplit \/ ~Live(q) \/ pkg[q].onboarding # "ONBOARDED"
    BY <1>6, <2>1, <2>7 DEF PkgOk, LiveInv, OneUpload
  <2>10. QED  BY <2>4, <2>5, <2>7, <2>8, <2>9, UsageUntouched
<1>9. ASSUME store_csar(u)  PROVE UsagesInv'
  <2>1. pkgReq[u].pc = "store"  BY <1>9 DEF store_csar, ReqAt
  <2>2. pkgReq[u] \in UploadReq  BY <1>1, <2>1, ReqFields DEF UploadSteps
  <2>3. PICK r : ReqGoes(u, r) /\ r.pc \in NoUsage
    <3> DEFINE s == [pkgReq[u] EXCEPT !.pc = "stored"]
    <3>1. s.pc \in NoUsage  BY <2>2 DEF UploadReq, NoUsage
    <3>2. ReqGoes(u, s) \/ ReqGoes(u, NoReq)  BY <1>9 DEF store_csar
    <3> HIDE DEF s
    <3>3. QED  BY <1>2, <3>1, <3>2
  <2>4. ReqsKept
    <3>1. pkgReq[u].pc \in NoUsage  BY <2>1 DEF NoUsage
    <3>2. QED  BY <2>3, <3>1, ReqsUntouched
  <2>5. UNCHANGED <<pkgInst, usageRaced, pkgSplit>>  BY <1>9 DEF store_csar
  <2>6. (Live(q) /\ pkg' = [pkg EXCEPT ![q].onboarding = "CREATED"]) \/ pkg' = pkg  BY <1>6, <1>9 DEF store_csar
  <2>7. q \in Pkgs /\ PkgOk(q)  BY <1>7, <2>1
  <2>8. /\ pkg'[q].state = pkg[q].state /\ pkg'[q].usage = pkg[q].usage
        /\ \A x \in Pkgs : x # q => pkg'[x] = pkg[x]
    <3>1. CASE pkg' = [pkg EXCEPT ![q].onboarding = "CREATED"]
      <4>1. "CREATED" \in Onboarding  BY DEF Onboarding
      <4>2. QED  BY <1>1, <2>7, <3>1, <4>1, OnboardingMoves
    <3>2. CASE pkg' = pkg  BY <3>2
    <3>3. QED  BY <2>6, <3>1, <3>2
  <2>9. q \in pkgSplit \/ ~Live(q) \/ pkg[q].onboarding # "ONBOARDED"
    <3>1. UpReq(u, q)  BY <1>6, <2>1 DEF UpReq
    <3>2. QED  BY <2>7, <3>1 DEF PkgOk, LiveInv, OneUpload
  <2>10. QED  BY <2>4, <2>5, <2>7, <2>8, <2>9, UsageUntouched
<1>10. ASSUME patch_save(u)  PROVE UsagesInv'
  <2>1. pkgReq[u].pc = "patch" /\ ReqGoes(u, NoReq)  BY <1>10 DEF patch_save, ReqAt
  <2>2. pkgReq[u].operational \in {"ENABLED", "DISABLED"}  BY <1>1, <2>1, ReqFields DEF PatchReq
  <2>3. ReqsKept
    <3>1. pkgReq[u].pc \in NoUsage  BY <2>1 DEF NoUsage
    <3>2. QED  BY <1>2, <2>1, <3>1, ReqsUntouched
  <2>4. UNCHANGED <<pkgInst, usageRaced, pkgSplit>>  BY <1>10 DEF patch_save
  <2>5. PICK d : d = pkgReq[u].operational  OBVIOUS
  <2>6. pkg' = [pkg EXCEPT ![q].operational = d] \/ pkg' = pkg  BY <1>6, <1>10, <2>5 DEF patch_save
  <2>7. q \in Pkgs  BY <1>7, <2>1
  <2>8. /\ pkg'[q].state = pkg[q].state /\ pkg'[q].usage = pkg[q].usage
        /\ pkg'[q].onboarding = pkg[q].onboarding
        /\ \A x \in Pkgs : x # q => pkg'[x] = pkg[x]
    <3>1. CASE pkg' = [pkg EXCEPT ![q].operational = d]  BY <1>1, <2>2, <2>5, <2>7, <3>1, OperationalMoves
    <3>2. CASE pkg' = pkg  BY <3>2
    <3>3. QED  BY <2>6, <3>1, <3>2
  <2>9. q \in pkgSplit \/ ~Live(q) \/ pkg[q].onboarding # "ONBOARDED" \/ pkg'[q].onboarding = "ONBOARDED"
    BY <2>8
  <2>10. QED  BY <2>3, <2>4, <2>7, <2>8, <2>9, UsageUntouched
<1>11. QED  BY <1>3, <1>4, <1>5, <1>8, <1>9, <1>10

\* ... and so do the conductors that take a cast ...
LEMMA UsageCasts ==
    ASSUME PkgInv, UsagesInv, NEW c \in pkgCasts,
           conductor_upload_content(c) \/ conductor_upload_from_uri(c) \/ conductor_delete(c)
    PROVE  UsagesInv'
PROOF
<1>1. PkgTypes  BY DEF PkgInv
<1>2. PICK q : q = c.p  OBVIOUS
<1>3. c \in PkgCast /\ q \in Pkgs /\ PkgOk(q)  BY <1>2, Known DEF PkgInv
<1>4. UNCHANGED <<pkgInst, pkgReq, usageRaced, pkgSplit>>
  BY DEF conductor_upload_content, conductor_upload_from_uri, conductor_delete
<1>5. ReqsKept  BY <1>4 DEF ReqsKept
<1>6. CASE conductor_delete(c)
  <2>1. UNCHANGED pkg  BY <1>6 DEF conductor_delete
  <2>2. QED  BY <1>4, <1>5, <2>1, UsageElsewhere
<1>7. CASE conductor_upload_content(c) \/ conductor_upload_from_uri(c)
  <2>1. \/ Processing(q, c.n)
        \/ pkg' = IF Live(q) THEN [pkg EXCEPT ![q].onboarding = "CREATED"] ELSE pkg
    BY <1>2, <1>7 DEF conductor_upload_content, conductor_upload_from_uri
  <2>2. \/ pkg' = [pkg EXCEPT ![q].onboarding = "PROCESSING", ![q].downloading = 0]
        \/ pkg' = [pkg EXCEPT ![q].onboarding = "CREATED"]
        \/ pkg' = pkg
    BY <2>1 DEF Processing
  <2>3. /\ pkg'[q].state = pkg[q].state /\ pkg'[q].usage = pkg[q].usage
        /\ \A x \in Pkgs : x # q => pkg'[x] = pkg[x]
    <3>1. CASE pkg' = [pkg EXCEPT ![q].onboarding = "PROCESSING", ![q].downloading = 0]
      BY <1>1, <1>3, <3>1, ProcessingMoves
    <3>2. CASE pkg' = [pkg EXCEPT ![q].onboarding = "CREATED"]
      <4>1. "CREATED" \in Onboarding  BY DEF Onboarding
      <4>2. QED  BY <1>1, <1>3, <3>2, <4>1, OnboardingMoves
    <3>3. CASE pkg' = pkg  BY <3>3
    <3>4. QED  BY <2>2, <3>1, <3>2, <3>3
  <2>4. q \in pkgSplit \/ ~Live(q) \/ pkg[q].onboarding # "ONBOARDED"
    BY <1>2, <1>3 DEF PkgOk, LiveInv, OneUpload
  <2>5. QED  BY <1>3, <1>4, <1>5, <2>3, <2>4, UsageUntouched
<1>8. QED  BY <1>6, <1>7

\* ... and those that load a package.
LEMMA UsageConductors ==
    ASSUME PkgInv, UsagesInv, NEW k \in PkgConductors,
           \/ load_csar_data(k) \/ extract_csar(k) \/ count_down(k) \/ check_downloading(k)
           \/ _onboard_vnf_package(k) \/ save_onboarded(k) \/ revert_upload_vnf_package(k)
           \/ delete_csar(k) \/ _run_cleanup_vnf_packages(k)
    PROVE  UsagesInv'
PROOF
<1>1. PkgTypes  BY DEF PkgInv
<1>2. UNCHANGED <<pkgInst, pkgReq, usageRaced>> /\ pkgSplit \subseteq pkgSplit'
  BY DEF load_csar_data, extract_csar, count_down, check_downloading, _onboard_vnf_package, save_onboarded,
         revert_upload_vnf_package, delete_csar, _run_cleanup_vnf_packages
<1>3. ReqsKept  BY <1>2 DEF ReqsKept
<1>4. PICK q : q = pkgCond[k].p  OBVIOUS
<1>5. q \in Pkgs /\ PkgOk(q)  BY <1>1, <1>4 DEF PkgInv, PkgTypes, CondRow
<1>6. CASE \/ extract_csar(k) \/ check_downloading(k) \/ _onboard_vnf_package(k)
           \/ delete_csar(k) \/ _run_cleanup_vnf_packages(k)
  <2>1. UNCHANGED pkg
    BY <1>6 DEF extract_csar, check_downloading, _onboard_vnf_package, delete_csar, _run_cleanup_vnf_packages
  <2>2. QED  BY <1>2, <1>3, <2>1, UsageElsewhere
<1>7. CASE load_csar_data(k)
  <2>1. PICK h : h = Head(fanout[k])  OBVIOUS
  <2>2. fanout[k] # <<>> /\ fanout' = [fanout EXCEPT ![k] = Tail(@)]  BY <1>7 DEF load_csar_data
  <2>3. h \in FanCast  BY <1>1, <2>1, <2>2, FanoutTaken
  <2>4. PICK x : x = h.p  OBVIOUS
  <2>5. x \in Pkgs  BY <2>3, <2>4 DEF FanCast
  <2>6. pkg' = [pkg EXCEPT ![x].downloading = @ + 1]  BY <1>7, <2>1, <2>4 DEF load_csar_data
  <2>7. /\ pkg'[x].state = pkg[x].state /\ pkg'[x].usage = pkg[x].usage /\ pkg'[x].onboarding = pkg[x].onboarding
        /\ \A y \in Pkgs : y # x => pkg'[y] = pkg[y]
    BY <1>1, <2>5, <2>6, DownloadingMoves
  <2>8. x \in pkgSplit \/ ~Live(x) \/ pkg[x].onboarding # "ONBOARDED" \/ pkg'[x].onboarding = "ONBOARDED"
    BY <2>7
  <2>9. QED  BY <1>2, <1>3, <2>5, <2>7, <2>8, UsageUntouched
<1>8. CASE count_down(k)
  <2>1. pkg' = [pkg EXCEPT ![q].downloading = @ - 1]  BY <1>4, <1>8 DEF count_down
  <2>2. /\ pkg'[q].state = pkg[q].state /\ pkg'[q].usage = pkg[q].usage /\ pkg'[q].onboarding = pkg[q].onboarding
        /\ \A y \in Pkgs : y # q => pkg'[y] = pkg[y]
    BY <1>1, <1>5, <2>1, CountDownMoves
  <2>3. q \in pkgSplit \/ ~Live(q) \/ pkg[q].onboarding # "ONBOARDED" \/ pkg'[q].onboarding = "ONBOARDED"
    BY <2>2
  <2>4. QED  BY <1>2, <1>3, <1>5, <2>2, <2>3, UsageUntouched
<1>9. CASE save_onboarded(k)
  <2>1. \/ Live(q) /\ pkg' = [pkg EXCEPT ![q].onboarding = "ONBOARDED", ![q].operational = "ENABLED"]
        \/ ~Live(q) /\ pkg' = pkg
    BY <1>4, <1>9 DEF save_onboarded
  <2>2. /\ pkg'[q].state = pkg[q].state /\ pkg'[q].usage = pkg[q].usage
        /\ ~Live(q) \/ pkg'[q].onboarding = "ONBOARDED"
        /\ \A y \in Pkgs : y # q => pkg'[y] = pkg[y]
    <3>1. CASE Live(q) /\ pkg' = [pkg EXCEPT ![q].onboarding = "ONBOARDED", ![q].operational = "ENABLED"]
      BY <1>1, <1>5, <3>1, OnboardedMoves
    <3>2. CASE ~Live(q) /\ pkg' = pkg  BY <3>2
    <3>3. QED  BY <2>1, <3>1, <3>2
  <2>3. QED  BY <1>2, <1>3, <1>5, <2>2, UsageUntouched
<1>10. CASE revert_upload_vnf_package(k)
  <2>1. pkgCond[k].pc = "revert"  BY <1>10 DEF revert_upload_vnf_package
  <2>2. pkg' = [pkg EXCEPT ![q].onboarding = "CREATED"] \/ pkg' = pkg  BY <1>4, <1>10 DEF revert_upload_vnf_package
  <2>3. /\ pkg'[q].state = pkg[q].state /\ pkg'[q].usage = pkg[q].usage
        /\ \A y \in Pkgs : y # q => pkg'[y] = pkg[y]
    <3>1. CASE pkg' = [pkg EXCEPT ![q].onboarding = "CREATED"]
      <4>1. "CREATED" \in Onboarding  BY DEF Onboarding
      <4>2. QED  BY <1>1, <1>5, <3>1, <4>1, OnboardingMoves
    <3>2. CASE pkg' = pkg  BY <3>2
    <3>3. QED  BY <2>2, <3>1, <3>2
  <2>4. q \in pkgSplit \/ ~Live(q) \/ pkg[q].onboarding # "ONBOARDED"
    <3>1. Active(k, q)  BY <1>4, <2>1 DEF Active
    <3>2. QED  BY <1>5, <3>1 DEF PkgOk, LiveInv, OnboardedInv
  <2>5. QED  BY <1>2, <1>3, <1>5, <2>3, <2>4, UsageUntouched
<1>11. QED  BY <1>6, <1>7, <1>8, <1>9, <1>10

\* The usage state of a package without requests on its instances.
LEMMA UsageIdle ==
    ASSUME NEW p \in Pkgs, UsageInv(p), Live(p)' <=> Live(p), pkg'[p].usage = pkg[p].usage,
           pkg'[p].onboarding = pkg[p].onboarding, HasInst(p)' <=> HasInst(p),
           \A u \in PkgReqs : ~InstReqOn(u, p), \A u \in PkgReqs : ~InstReqOn(u, p)',
           \A u \in PkgReqs : pkgReq'[u].pc = "destroy" /\ pkgReq'[u].p = p =>
               ~HasInst(p) \/ (pkgReq[u].pc = "destroy" /\ pkgReq[u].p = p)
    PROVE  UsageInv(p)'
PROOF
<1>1. ~Live(p)' => ~HasInst(p)'  BY DEF UsageInv
<1>2. \A u \in PkgReqs : pkgReq'[u].pc = "destroy" /\ pkgReq'[u].p = p => ~HasInst(p)'  BY DEF UsageInv
<1>3. HasInst(p)' => pkg'[p].onboarding = "ONBOARDED"  BY DEF UsageInv
<1>4. Live(p)' => (HasInst(p)' <=> pkg'[p].usage = "IN_USE")  BY DEF UsageInv
<1>5. QED  BY <1>1, <1>2, <1>3, <1>4 DEF UsageInv

\* The usage state of a package with a request on an instance.
LEMMA UsageAt ==
    ASSUME NEW p \in Pkgs, NEW u \in PkgReqs, InstReqOn(u, p)', UsageOf(u, p)', Live(p)',
           \A v \in PkgReqs : ~(pkgReq'[v].pc = "destroy" /\ pkgReq'[v].p = p)
    PROVE  UsageInv(p)'
PROOF
<1>1. \A v \in PkgReqs : InstReqOn(v, p)' => v = u  BY DEF UsageOf, InstReqOn
<1>2. HasInst(p)' => pkg'[p].onboarding = "ONBOARDED"  BY DEF UsageOf
<1>3. QED  BY <1>1, <1>2 DEF UsageInv

\* A new package is not in use.
LEMMA UsageNewPkg ==
    ASSUME PkgInv, UsagesInv, NEW q \in Pkgs, pkg_create(q)
    PROVE  UsagesInv'
PROOF
<1>1. PkgTypes /\ PkgOk(q)  BY DEF PkgInv
<1>2. pkg[q].state = "none" /\ pkg' = [pkg EXCEPT ![q] = NewPkg]  BY DEF pkg_create
<1>3. UNCHANGED <<pkgInst, pkgReq, pkgSplit, usageRaced>>  BY DEF pkg_create
<1>4. NewPkg \in PkgRow /\ NewPkg.state = "live" /\ NewPkg.usage = "NOT_IN_USE"  BY DEF NewPkg, PkgRow
<1>5. pkg'[q] = NewPkg /\ \A x \in Pkgs : x # q => pkg'[x] = pkg[x]  BY <1>1, <1>2, <1>4, RowMoves
<1>6. ReqsKept  BY <1>3 DEF ReqsKept
<1>7. ASSUME NEW p \in Pkgs, p \notin usageRaced', p \notin pkgSplit'  PROVE UsageInv(p)'
  <2>1. UsageInv(p)  BY <1>3, <1>7 DEF UsagesInv
  <2>2. CASE p # q
    <3>1. pkg'[p] = pkg[p]  BY <1>5, <2>2
    <3>2. QED  BY <1>3, <1>6, <2>1, <3>1, UsageKept DEF Live
  <2>3. CASE p = q
    <3>1. NoneInv(p)  BY <1>1, <1>2, <2>3 DEF PkgOk
    <3>2. ~HasInst(p)'  BY <1>3, <3>1 DEF NoneInv, HasInst
    <3>3. \A u \in PkgReqs : pkgReq'[u].p = p => pkgReq'[u].pc = "idle"  BY <1>3, <3>1 DEF NoneInv
    <3>4. \A u \in PkgReqs : ~InstReqOn(u, p)' /\ ~(pkgReq'[u].pc = "destroy" /\ pkgReq'[u].p = p)
      BY <3>3 DEF InstReqOn, InstReqs
    <3>5. pkg'[p].usage # "IN_USE"  BY <1>4, <1>5, <2>3
    <3>6. QED  BY <3>2, <3>4, <3>5 DEF UsageInv
  <2>4. QED  BY <2>2, <2>3
<1>8. QED  BY <1>7 DEF UsagesInv

\* delete checks the usage state ...
LEMMA UsageDelete ==
    ASSUME PkgInv, UsagesInv, NEW u \in PkgReqs, NEW q \in Pkgs, pkg_delete(u, q)
    PROVE  UsagesInv'
PROOF
<1>1. PkgTypes  BY DEF PkgInv
<1>2. PICK r : r = [pc |-> "destroy", p |-> q, seen |-> pkg[q].onboarding]  OBVIOUS
<1>3. /\ pkgReq[u].pc = "idle" /\ Live(q) /\ pkg[q].usage = "NOT_IN_USE"
      /\ ReqGoes(u, r)
      /\ usageRaced' = IF \E v \in PkgReqs : pkgReq[v].pc \in InstReqs /\ pkgReq[v].p = q
                       THEN usageRaced \cup {q} ELSE usageRaced
      /\ UNCHANGED <<pkg, pkgInst, pkgSplit>>
  BY <1>2 DEF pkg_delete, ReqAt
<1>4. r.pc = "destroy" /\ r.p = q  BY <1>2
<1>5. pkgReq'[u] = r /\ \A v \in PkgReqs : v # u => pkgReq'[v] = pkgReq[v]
  BY <1>1, <1>3 DEF PkgTypes, ReqGoes
<1>6. \A v \in PkgReqs : pkgReq'[v].pc \in InstReqs \/ pkgReq[v].pc \in InstReqs => v # u /\ pkgReq'[v] = pkgReq[v]
  BY <1>3, <1>4, <1>5 DEF InstReqs
<1>7. ASSUME NEW p \in Pkgs, p \notin usageRaced', p \notin pkgSplit'  PROVE UsageInv(p)'
  <2>1. UsageInv(p)  BY <1>3, <1>7 DEF UsagesInv
  <2>2. \A v \in PkgReqs : InstReqOn(v, p)' <=> InstReqOn(v, p)  BY <1>6 DEF InstReqOn
  <2>3. HasInst(p)' <=> HasInst(p)  BY <1>3 DEF HasInst
  <2>4. CASE \E v \in PkgReqs : InstReqOn(v, p)
    <3>1. PICK v \in PkgReqs : InstReqOn(v, p)  BY <2>4
    <3>2. pkgReq'[v] = pkgReq[v]  BY <1>6, <3>1 DEF InstReqOn
    <3>3. UsageOf(v, p)  BY <2>1, <3>1 DEF UsageInv
    <3>4. \A w \in PkgReqs : pkgReq'[w].pc \in InstReqs => w = v  BY <1>6, <3>3 DEF UsageOf
    <3>5. UsageOf(v, p)'  BY <1>3, <2>3, <3>2, <3>3, <3>4 DEF UsageOf
    <3>6. p # q  BY <1>3, <1>7, <3>1 DEF InstReqOn
    <3>7. \A w \in PkgReqs : ~(pkgReq'[w].pc = "destroy" /\ pkgReq'[w].p = p)
      BY <1>4, <1>5, <2>1, <3>1, <3>6 DEF UsageInv
    <3>8. Live(p)'  BY <1>3, <2>1, <3>1 DEF UsageInv, Live
    <3>9. QED  BY <2>2, <3>1, <3>5, <3>7, <3>8, UsageAt
  <2>5. CASE \A v \in PkgReqs : ~InstReqOn(v, p)
    <3>1. p = q => ~HasInst(p)  BY <1>3, <2>1, <2>5 DEF UsageInv
    <3>2. \A w \in PkgReqs : pkgReq'[w].pc = "destroy" /\ pkgReq'[w].p = p =>
              ~HasInst(p) \/ (pkgReq[w].pc = "destroy" /\ pkgReq[w].p = p)
      BY <1>4, <1>5, <3>1
    <3>3. QED  BY <1>3, <2>1, <2>2, <2>3, <2>5, <3>2, UsageIdle DEF Live
  <2>6. QED  BY <2>4, <2>5
<1>8. usageRaced \subseteq usageRaced'  BY <1>3
<1>9. QED  BY <1>7 DEF UsagesInv

\* ... before it destroys the row.
LEMMA UsageDestroy ==
    ASSUME PkgInv, UsagesInv, NEW u \in PkgReqs, pkg_destroy(u)
    PROVE  UsagesInv'
PROOF
<1>1. PkgTypes  BY DEF PkgInv
<1>2. PICK q : q = pkgReq[u].p  OBVIOUS
<1>3. /\ pkgReq[u].pc = "destroy" /\ ReqGoes(u, NoReq)
      /\ pkg' = [pkg EXCEPT ![q].state = "deleted"]
      /\ UNCHANGED <<pkgInst, pkgSplit, usageRaced>>
  BY <1>2 DEF pkg_destroy, ReqAt
<1>4. q \in Pkgs  BY <1>1, <1>2, <1>3, ReqFields
<1>5. NoReq.pc = "idle"  BY DEF NoReq
<1>6. pkgReq'[u] = NoReq /\ \A v \in PkgReqs : v # u => pkgReq'[v] = pkgReq[v]
  BY <1>1, <1>3 DEF PkgTypes, ReqGoes
<1>7. pkg'[q].state = "deleted" /\ \A x \in Pkgs : x # q => pkg'[x] = pkg[x]
  BY <1>1, <1>3, <1>4, StateMoves
<1>8. \A v \in PkgReqs : pkgReq'[v].pc \in InstReqs \/ pkgReq[v].pc \in InstReqs => v # u /\ pkgReq'[v] = pkgReq[v]
  BY <1>3, <1>5, <1>6 DEF InstReqs
<1>9. \A v \in PkgReqs : pkgReq'[v].pc = "destroy" => v # u /\ pkgReq'[v] = pkgReq[v]
  BY <1>5, <1>6
<1>10. ASSUME NEW p \in Pkgs, p \notin usageRaced', p \notin pkgSplit'  PROVE UsageInv(p)'
  <2>1. UsageInv(p)  BY <1>3, <1>10 DEF UsagesInv
  <2>2. \A v \in PkgReqs : InstReqOn(v, p)' <=> InstReqOn(v, p)  BY <1>8 DEF InstReqOn
  <2>3. HasInst(p)' <=> HasInst(p)  BY <1>3 DEF HasInst
  <2>4. CASE p = q
    <3>1. ~HasInst(p) /\ \A v \in PkgReqs : ~InstReqOn(v, p)  BY <1>2, <1>3, <2>1, <2>4 DEF UsageInv
    <3>2. ~HasInst(p)' /\ \A v \in PkgReqs : ~InstReqOn(v, p)'  BY <2>2, <2>3, <3>1
    <3>3. ~Live(p)'  BY <1>7, <2>4 DEF Live
    <3>4. QED  BY <3>2, <3>3 DEF UsageInv
  <2>5. CASE p # q /\ \E v \in PkgReqs : InstReqOn(v, p)
    <3>0. pkg'[p] = pkg[p]  BY <1>7, <2>5
    <3>1. PICK v \in PkgReqs : InstReqOn(v, p)  BY <2>5
    <3>2. pkgReq'[v] = pkgReq[v]  BY <1>8, <3>1 DEF InstReqOn
    <3>3. UsageOf(v, p)  BY <2>1, <3>1 DEF UsageInv
    <3>4. \A w \in PkgReqs : pkgReq'[w].pc \in InstReqs => w = v  BY <1>8, <3>3 DEF UsageOf
    <3>5. UsageOf(v, p)'  BY <1>3, <2>3, <3>0, <3>2, <3>3, <3>4 DEF UsageOf
    <3>6. \A w \in PkgReqs : ~(pkgReq'[w].pc = "destroy" /\ pkgReq'[w].p = p)
      BY <1>9, <2>1, <3>1 DEF UsageInv
    <3>7. Live(p)'  BY <2>1, <3>0, <3>1 DEF UsageInv, Live
    <3>8. QED  BY <2>2, <3>1, <3>5, <3>6, <3>7, UsageAt
  <2>6. CASE p # q /\ \A v \in PkgReqs : ~InstReqOn(v, p)
    <3>1. pkg'[p] = pkg[p]  BY <1>7, <2>6
    <3>2. \A w \in PkgReqs : pkgReq'[w].pc = "destroy" /\ pkgReq'[w].p = p =>
              pkgReq[w].pc = "destroy" /\ pkgReq[w].p = p
      BY <1>9
    <3>3. QED  BY <2>1, <2>2, <2>3, <2>6, <3>1, <3>2, UsageIdle DEF Live
  <2>7. QED  BY <2>4, <2>5, <2>6
<1>11. QED  BY <1>10 DEF UsagesInv

\* The VNFD belongs to one package: no other has instances.
LEMMA OnlyOne ==
    ASSUME PkgInv, NEW q \in vnfdRow, NEW p \in Pkgs, p # q, p \notin pkgSplit, UsageInv(p)
    PROVE  ~HasInst(p) /\ \A u \in PkgReqs : ~InstReqOn(u, p)
BY Counting DEF PkgInv, OneRow

\* A request creates an instance ...
LEMMA UsageCreate ==
    ASSUME PkgInv, UsagesInv, NEW u \in PkgReqs, NEW q \in Pkgs, NEW i \in PkgInsts, NEW s \in Stacks,
           inst_create(u, i, s, q)
    PROVE  UsagesInv'
PROOF
<1>1. PkgTypes /\ PkgOk(q)  BY DEF PkgInv
<1>2. PICK x : x = [id |-> i, stack |-> s, p |-> q]  OBVIOUS
<1>3. x.stack = s /\ x.p = q  BY <1>2
<1>4. PICK r : r = [pc |-> "insert", p |-> q, inst |-> x, create |-> TRUE]  OBVIOUS
<1>5. r.pc = "insert" /\ r.p = q /\ r.inst = x /\ r.create  BY <1>4
<1>6. /\ pkgReq[u].pc = "idle" /\ q \in vnfdRow
      /\ s = "v2" => Live(q) /\ pkg[q].onboarding = "ONBOARDED"
      /\ ReqGoes(u, r)
      /\ usageRaced' = IF UsageRace(u, q, s) THEN usageRaced \cup {q} ELSE usageRaced
      /\ UNCHANGED <<pkg, pkgInst, pkgSplit>>
  BY <1>2, <1>4 DEF inst_create, ReqAt
<1>7. pkgReq'[u] = r /\ \A v \in PkgReqs : v # u => pkgReq'[v] = pkgReq[v]
  BY <1>1, <1>6 DEF PkgTypes, ReqGoes
<1>8. ASSUME NEW p \in Pkgs, p \notin usageRaced', p \notin pkgSplit'  PROVE UsageInv(p)'
  <2>1. UsageInv(p) /\ p \notin pkgSplit  BY <1>6, <1>8 DEF UsagesInv
  <2>2. HasInst(p)' <=> HasInst(p)  BY <1>6 DEF HasInst
  <2>3. CASE p # q
    <3>1. \A v \in PkgReqs : ~InstReqOn(v, p)  BY <1>6, <2>1, <2>3, OnlyOne
    <3>2. \A v \in PkgReqs : ~InstReqOn(v, p)'  BY <1>5, <1>7, <2>3, <3>1 DEF InstReqOn
    <3>3. \A v \in PkgReqs : pkgReq'[v].pc = "destroy" /\ pkgReq'[v].p = p =>
              pkgReq[v].pc = "destroy" /\ pkgReq[v].p = p
      BY <1>5, <1>7
    <3>4. QED  BY <1>6, <2>1, <2>2, <3>1, <3>2, <3>3, UsageIdle DEF Live
  <2>4. CASE p = q
    <3>1. ~UsageRace(u, p, s)  BY <1>6, <1>8, <2>4
    <3>2. /\ \A v \in PkgReqs \ {u} : pkgReq[v].pc \notin InstReqs
          /\ \A y \in pkgInst : y.p = p /\ y.stack = s
          /\ s = "v1" => pkg[p].onboarding = "ONBOARDED"
          /\ \A v \in PkgReqs : ~(pkgReq[v].pc = "destroy" /\ pkgReq[v].p = p)
      BY <3>1 DEF UsageRace
    <3>3. pkg[p].onboarding = "ONBOARDED"  BY <1>6, <2>4, <3>2 DEF Stacks
    <3>4. Live(p)
      <4>1. pkg[p].state \in {"none", "live", "deleted"}  BY <1>1, PkgRows DEF PkgRow
      <4>2. pkg[p].state # "none"  BY <1>6, <2>4, Known
      <4>3. pkg[p].state # "deleted"  BY <1>1, <1>6, <2>1, <2>4, <3>3 DEF PkgOk, GoneRow
      <4>4. QED  BY <4>1, <4>2, <4>3 DEF Live
    <3>5. \A v \in PkgReqs : ~InstReqOn(v, p)  BY <1>6, <3>2 DEF InstReqOn, InstReqs
    <3>6. HasInst(p) <=> pkg[p].usage = "IN_USE"  BY <2>1, <3>4, <3>5 DEF UsageInv
    <3>7. \A v \in PkgReqs : pkgReq'[v].pc \in InstReqs => v = u  BY <1>7, <3>2
    <3>8. UsageOf(u, p)'
      <4>1. pkg'[p].onboarding = "ONBOARDED"  BY <1>6, <3>3
      <4>2. \A y \in pkgInst' : y.p = p /\ y.stack = pkgReq'[u].inst.stack  BY <1>3, <1>5, <1>6, <1>7, <3>2
      <4>3. pkgReq'[u].inst.p = p /\ pkgReq'[u].pc = "insert" /\ pkgReq'[u].create  BY <1>3, <1>5, <1>7, <2>4
      <4>4. HasInst(p)' <=> pkg'[p].usage = "IN_USE"  BY <1>6, <2>2, <3>6
      <4>5. QED  BY <3>7, <4>1, <4>2, <4>3, <4>4 DEF UsageOf
    <3>9. InstReqOn(u, p)'  BY <1>5, <1>7, <2>4 DEF InstReqOn, InstReqs
    <3>10. Live(p)'  BY <1>6, <3>4 DEF Live
    <3>11. \A v \in PkgReqs : ~(pkgReq'[v].pc = "destroy" /\ pkgReq'[v].p = p)  BY <1>5, <1>7, <3>2
    <3>12. QED  BY <3>8, <3>9, <3>10, <3>11, UsageAt
  <2>5. QED  BY <2>3, <2>4
<1>9. QED  BY <1>8 DEF UsagesInv

\* ... inserts its row ...
LEMMA UsageInsert ==
    ASSUME PkgInv, UsagesInv, NEW u \in PkgReqs, inst_insert(u)
    PROVE  UsagesInv'
PROOF
<1>1. PkgTypes /\ InsertsOwn  BY DEF PkgInv
<1>2. PICK x : x = pkgReq[u].inst  OBVIOUS
<1>3. PICK r : r = [pkgReq[u] EXCEPT !.pc = "usage"]  OBVIOUS
<1>4. /\ pkgReq[u].pc = "insert" /\ ReqGoes(u, r)
      /\ pkgInst' = pkgInst \cup {x}
      /\ UNCHANGED <<pkg, pkgSplit, usageRaced>>
  BY <1>2, <1>3 DEF inst_insert, ReqAt
<1>5. pkgReq[u] \in ReadReq  BY <1>1, <1>4, ReqFields
<1>6. r.pc = "usage" /\ r.p = pkgReq[u].p /\ r.inst = x /\ r.create = pkgReq[u].create
  BY <1>2, <1>3, <1>5 DEF ReadReq
<1>7. x.p = pkgReq[u].p /\ pkgReq[u].create  BY <1>1, <1>2, <1>4 DEF InsertsOwn, OwnPackage
<1>8. pkgReq'[u] = r /\ \A v \in PkgReqs : v # u => pkgReq'[v] = pkgReq[v]
  BY <1>1, <1>4 DEF PkgTypes, ReqGoes
<1>9. ASSUME NEW p \in Pkgs, p \notin usageRaced', p \notin pkgSplit'  PROVE UsageInv(p)'
  <2>1. UsageInv(p)  BY <1>4, <1>9 DEF UsagesInv
  <2>2. CASE p # pkgReq[u].p
    <3>1. ASSUME NEW v \in PkgReqs, InstReqOn(v, p)  PROVE FALSE
      <4>1. UsageOf(v, p)  BY <2>1, <3>1 DEF UsageInv
      <4>2. u = v  BY <1>4, <4>1 DEF UsageOf, InstReqs
      <4>3. QED  BY <2>2, <3>1, <4>2 DEF InstReqOn
    <3>2. \A v \in PkgReqs : ~InstReqOn(v, p)'  BY <1>6, <1>8, <2>2, <3>1 DEF InstReqOn
    <3>3. HasInst(p)' <=> HasInst(p)  BY <1>4, <1>7, <2>2 DEF HasInst
    <3>4. \A v \in PkgReqs : pkgReq'[v].pc = "destroy" /\ pkgReq'[v].p = p =>
              pkgReq[v].pc = "destroy" /\ pkgReq[v].p = p
      BY <1>6, <1>8
    <3>5. QED  BY <1>4, <2>1, <3>1, <3>2, <3>3, <3>4, UsageIdle DEF Live
  <2>3. CASE p = pkgReq[u].p
    <3>1. InstReqOn(u, p)  BY <1>4, <2>3 DEF InstReqOn, InstReqs
    <3>2. UsageOf(u, p) /\ Live(p)  BY <2>1, <3>1 DEF UsageInv
    <3>3. InstReqOn(u, p)'  BY <1>6, <1>8, <2>3 DEF InstReqOn, InstReqs
    <3>4. UsageOf(u, p)'
      <4>1. \A v \in PkgReqs : pkgReq'[v].pc \in InstReqs => v = u  BY <1>8, <3>2 DEF UsageOf
      <4>2. \A y \in pkgInst' : y.p = p /\ y.stack = pkgReq'[u].inst.stack
        BY <1>2, <1>4, <1>6, <1>7, <1>8, <2>3, <3>2 DEF UsageOf
      <4>3. pkgReq'[u].inst.p = p /\ pkgReq'[u].pc = "usage" /\ pkgReq'[u].create /\ pkgReq'[u].inst \in pkgInst'
        BY <1>4, <1>6, <1>7, <1>8, <2>3
      <4>4. pkg'[p].onboarding = "ONBOARDED"  BY <1>4, <3>2 DEF UsageOf
      <4>5. QED  BY <4>1, <4>2, <4>3, <4>4 DEF UsageOf
    <3>5. Live(p)'  BY <1>4, <3>2 DEF Live
    <3>6. \A v \in PkgReqs : ~(pkgReq'[v].pc = "destroy" /\ pkgReq'[v].p = p)
      BY <1>6, <1>8, <2>1, <3>1 DEF UsageInv
    <3>7. QED  BY <3>3, <3>4, <3>5, <3>6, UsageAt
  <2>4. QED  BY <2>2, <2>3
<1>10. QED  BY <1>9 DEF UsagesInv

\* ... or deletes it ...
LEMMA UsageDeleteInst ==
    ASSUME PkgInv, UsagesInv, NEW u \in PkgReqs, NEW q \in Pkgs, NEW i \in pkgInst, inst_delete(u, i, q)
    PROVE  UsagesInv'
PROOF
<1>1. PkgTypes  BY DEF PkgInv
<1>2. PICK r : r = [pc |-> "usage", p |-> q, inst |-> i, create |-> FALSE]  OBVIOUS
<1>3. r.pc = "usage" /\ r.p = q /\ r.inst = i /\ ~r.create  BY <1>2
<1>4. /\ pkgReq[u].pc = "idle" /\ ReqGoes(u, r)
      /\ q \in vnfdRow \/ q = i.p
      /\ pkgInst' = pkgInst \ {i}
      /\ usageRaced' = IF UsageRace(u, q, i.stack) THEN usageRaced \cup {q} ELSE usageRaced
      /\ UNCHANGED <<pkg, pkgSplit>>
  BY <1>2 DEF inst_delete, ReqAt
<1>5. pkgReq'[u] = r /\ \A v \in PkgReqs : v # u => pkgReq'[v] = pkgReq[v]
  BY <1>1, <1>4 DEF PkgTypes, ReqGoes
<1>6. ASSUME NEW p \in Pkgs, p \notin usageRaced', p \notin pkgSplit'  PROVE UsageInv(p)'
  <2>1. UsageInv(p) /\ p \notin pkgSplit  BY <1>4, <1>6 DEF UsagesInv
  <2>2. CASE p # q
    <3>1. i.p # p
      <4>1. CASE q = i.p  BY <2>2, <4>1
      <4>2. CASE q \in vnfdRow
        <5>1. ~HasInst(p)  BY <2>1, <2>2, <4>2, OnlyOne
        <5>2. QED  BY <5>1 DEF HasInst
      <4>3. QED  BY <1>4, <4>1, <4>2
    <3>2. HasInst(p)' <=> HasInst(p)  BY <1>4, <3>1 DEF HasInst
    <3>3. \A v \in PkgReqs : ~InstReqOn(v, p)  BY <2>1, <3>1 DEF UsageInv, UsageOf
    <3>4. \A v \in PkgReqs : ~InstReqOn(v, p)'  BY <1>3, <1>5, <2>2, <3>3 DEF InstReqOn
    <3>5. \A v \in PkgReqs : pkgReq'[v].pc = "destroy" /\ pkgReq'[v].p = p =>
              pkgReq[v].pc = "destroy" /\ pkgReq[v].p = p
      BY <1>3, <1>5
    <3>6. QED  BY <1>4, <2>1, <3>2, <3>3, <3>4, <3>5, UsageIdle DEF Live
  <2>3. CASE p = q
    <3>1. ~UsageRace(u, p, i.stack)  BY <1>4, <1>6, <2>3
    <3>2. /\ \A v \in PkgReqs \ {u} : pkgReq[v].pc \notin InstReqs
          /\ \A y \in pkgInst : y.p = p /\ y.stack = i.stack
          /\ \A v \in PkgReqs : ~(pkgReq[v].pc = "destroy" /\ pkgReq[v].p = p)
      BY <3>1 DEF UsageRace
    <3>3. HasInst(p)  BY <3>2 DEF HasInst
    <3>4. Live(p) /\ pkg[p].onboarding = "ONBOARDED"  BY <2>1, <3>3, Counting
    <3>5. \A v \in PkgReqs : ~InstReqOn(v, p)  BY <1>4, <3>2 DEF InstReqOn, InstReqs
    <3>6. pkg[p].usage = "IN_USE"  BY <2>1, <3>3, <3>4, <3>5 DEF UsageInv
    <3>7. \A v \in PkgReqs : pkgReq'[v].pc \in InstReqs => v = u  BY <1>5, <3>2
    <3>8. UsageOf(u, p)'
      <4>1. pkg'[p].onboarding = "ONBOARDED" /\ pkg'[p].usage = "IN_USE"  BY <1>4, <3>4, <3>6
      <4>2. \A y \in pkgInst' : y.p = p /\ y.stack = pkgReq'[u].inst.stack  BY <1>3, <1>4, <1>5, <3>2
      <4>3. pkgReq'[u].inst.p = p /\ pkgReq'[u].pc = "usage" /\ ~pkgReq'[u].create  BY <1>3, <1>5, <3>2
      <4>4. QED  BY <3>7, <4>1, <4>2, <4>3 DEF UsageOf
    <3>9. InstReqOn(u, p)'  BY <1>3, <1>5, <2>3 DEF InstReqOn, InstReqs
    <3>10. Live(p)'  BY <1>4, <3>4 DEF Live
    <3>11. \A v \in PkgReqs : ~(pkgReq'[v].pc = "destroy" /\ pkgReq'[v].p = p)  BY <1>3, <1>5, <3>2
    <3>12. QED  BY <3>8, <3>9, <3>10, <3>11, UsageAt
  <2>4. QED  BY <2>2, <2>3
<1>7. QED  BY <1>6 DEF UsagesInv

\* ... looks the instances up ...
LEMMA UsageRead ==
    ASSUME PkgInv, UsagesInv, NEW u \in PkgReqs, NEW q \in Pkgs, usage_read(u, q)
    PROVE  UsagesInv'
PROOF
<1>1. PkgTypes /\ InsertsOwn  BY DEF PkgInv
<1>2. PICK r : r = pkgReq[u]  OBVIOUS
<1>3. PICK v1 : v1 = (r.inst.stack = "v1")  OBVIOUS
<1>4. PICK inUse : inUse = IF v1 THEN is_package_in_use(q, r) ELSE r.create  OBVIOUS
<1>5. PICK goesOn : goesOn = (Live(q) /\ (v1 \/ (q \in vnfdRow /\ (r.create \/ Instances("v2") = {}))))  OBVIOUS
<1>6. PICK z : z = [pc |-> "saveUsage", p |-> q, inst |-> r.inst, create |-> r.create, inUse |-> inUse]  OBVIOUS
<1>7. z.pc = "saveUsage" /\ z.p = q /\ z.inst = r.inst /\ z.inUse = inUse  BY <1>6
<1>8. /\ pkgReq[u].pc = "usage" /\ q \in (IF v1 \/ vnfdRow = {} THEN {r.p} ELSE vnfdRow)
      /\ ReqGoes(u, IF goesOn THEN z ELSE NoReq)
      /\ pkgInst' = IF ~Live(q) /\ v1 /\ r.create THEN pkgInst \ {r.inst} ELSE pkgInst
      /\ usageRaced' = IF q # r.p THEN usageRaced \cup {q} ELSE usageRaced
      /\ UNCHANGED <<pkg, pkgSplit>>
  <2>1. /\ pkgReq[u].pc = "usage" /\ q \in (IF v1 \/ vnfdRow = {} THEN {r.p} ELSE vnfdRow)
        /\ pkgInst' = IF ~Live(q) /\ v1 /\ r.create THEN pkgInst \ {r.inst} ELSE pkgInst
        /\ usageRaced' = IF q # r.p THEN usageRaced \cup {q} ELSE usageRaced
        /\ UNCHANGED <<pkg, pkgSplit>>
    BY <1>2, <1>3 DEF usage_read, ReqAt
  <2>2. ReqGoes(u, IF goesOn THEN z ELSE NoReq)  BY <1>2, <1>3, <1>4, <1>5, <1>6 DEF usage_read
  <2>3. QED  BY <2>1, <2>2
<1>9. r \in ReadReq /\ r.pc = "usage"  BY <1>1, <1>2, <1>8, ReqFields
<1>10. NoReq.pc = "idle"  BY DEF NoReq
<1>11. pkgReq'[u] = (IF goesOn THEN z ELSE NoReq) /\ \A v \in PkgReqs : v # u => pkgReq'[v] = pkgReq[v]
  BY <1>1, <1>8 DEF PkgTypes, ReqGoes
<1>12. pkgReq'[u].pc # "destroy" /\ (InstReqOn(u, q)' <=> goesOn) /\ \A p \in Pkgs : p # q => ~InstReqOn(u, p)'
  BY <1>7, <1>10, <1>11 DEF InstReqOn, InstReqs
<1>13. ASSUME NEW p \in Pkgs, p \notin usageRaced', p \notin pkgSplit'  PROVE UsageInv(p)'
  <2>1. UsageInv(p) /\ p \notin pkgSplit  BY <1>8, <1>13 DEF UsagesInv
  <2>2. p = r.p => InstReqOn(u, p)  BY <1>2, <1>9 DEF InstReqOn, InstReqs
  <2>3. p = r.p => p = q
    <3>1. SUFFICES ASSUME p = r.p  PROVE p = q  OBVIOUS
    <3>2. p \in vnfdRow  BY <2>1, <2>2, <3>1, Counting
    <3>3. QED  BY <1>8, <3>1, <3>2 DEF PkgInv, OneRow
  <2>4. CASE p # q
    <3>1. ASSUME NEW v \in PkgReqs, InstReqOn(v, p)  PROVE FALSE
      <4>1. UsageOf(v, p)  BY <2>1, <3>1 DEF UsageInv
      <4>2. u = v  BY <1>8, <4>1 DEF UsageOf, InstReqs
      <4>3. QED  BY <1>2, <2>3, <2>4, <3>1, <4>2 DEF InstReqOn
    <3>2. \A v \in PkgReqs : ~InstReqOn(v, p)'  BY <1>11, <1>12, <2>4, <3>1 DEF InstReqOn
    <3>3. HasInst(p)' <=> HasInst(p)
      <4>1. v1 /\ r.create => r.inst.p = r.p  BY <1>1, <1>2, <1>3, <1>9 DEF InsertsOwn, OwnPackage
      <4>2. v1 => r.p = q  BY <1>8
      <4>3. QED  BY <1>8, <2>4, <4>1, <4>2 DEF HasInst
    <3>4. \A v \in PkgReqs : pkgReq'[v].pc = "destroy" /\ pkgReq'[v].p = p =>
              pkgReq[v].pc = "destroy" /\ pkgReq[v].p = p
      BY <1>11, <1>12
    <3>5. QED  BY <1>8, <2>1, <3>1, <3>2, <3>3, <3>4, UsageIdle DEF Live
  <2>5. CASE p = q
    <3>1. p = r.p  BY <1>8, <1>13, <2>5
    <3>2. InstReqOn(u, p)  BY <2>2, <3>1
    <3>3. UsageOf(u, p) /\ Live(p) /\ p \in vnfdRow  BY <2>1, <3>2, Counting DEF UsageInv
    <3>4. /\ pkg[p].onboarding = "ONBOARDED"
          /\ \A v \in PkgReqs : pkgReq[v].pc \in InstReqs => v = u
          /\ \A y \in pkgInst : y.p = p /\ y.stack = r.inst.stack
          /\ r.inst.p = p
          /\ IF r.create THEN r.inst \in pkgInst ELSE HasInst(p) => pkg[p].usage = "IN_USE"
      BY <1>2, <1>9, <3>3 DEF UsageOf
    <3>5. pkgInst' = pkgInst  BY <1>8, <2>5, <3>3
    <3>6. HasInst(p)' <=> HasInst(p)  BY <3>5 DEF HasInst
    <3>7. Live(p)'  BY <1>8, <3>3 DEF Live
    <3>8. \A v \in PkgReqs : ~(pkgReq'[v].pc = "destroy" /\ pkgReq'[v].p = p)
      BY <1>11, <1>12, <2>1, <3>2 DEF UsageInv
    <3>9. r.inst.stack \in Stacks  BY <1>9 DEF ReadReq, PkgInstance
    <3>10. CASE goesOn
      <4>1. inUse <=> HasInst(p)
        <5>1. CASE v1
          <6>1. inUse <=> Instances("v1") # {}  BY <1>4, <2>5, <3>4, <5>1 DEF is_package_in_use
          <6>2. Instances("v1") # {} <=> HasInst(p)  BY <1>3, <3>4, <5>1 DEF Instances, HasInst
          <6>3. QED  BY <6>1, <6>2
        <5>2. CASE ~v1
          <6>1. inUse = r.create /\ r.inst.stack = "v2"  BY <1>3, <1>4, <3>9, <5>2 DEF Stacks
          <6>2. CASE r.create  BY <3>4, <6>1, <6>2 DEF HasInst
          <6>3. CASE ~r.create
            <7>1. Instances("v2") = {}  BY <1>5, <3>10, <5>2, <6>3
            <7>2. ~HasInst(p)  BY <3>4, <6>1, <7>1 DEF Instances, HasInst
            <7>3. QED  BY <6>1, <6>3, <7>2
          <6>4. QED  BY <6>2, <6>3
        <5>3. QED  BY <5>1, <5>2
      <4>2. pkgReq'[u] = z  BY <1>11, <3>10
      <4>3. UsageOf(u, p)'
        <5>1. \A v \in PkgReqs : pkgReq'[v].pc \in InstReqs => v = u  BY <1>11, <3>4
        <5>2. pkgReq'[u].pc = "saveUsage" /\ pkgReq'[u].inst = r.inst  BY <1>7, <4>2
        <5>3. pkgReq'[u].inUse <=> HasInst(p)'  BY <1>7, <3>6, <4>1, <4>2
        <5>4. \A y \in pkgInst' : y.p = p /\ y.stack = pkgReq'[u].inst.stack  BY <3>4, <3>5, <5>2
        <5>5. pkg'[p].onboarding = "ONBOARDED" /\ pkgReq'[u].inst.p = p  BY <1>8, <3>4, <5>2
        <5>6. QED  BY <5>1, <5>2, <5>3, <5>4, <5>5 DEF UsageOf
      <4>4. InstReqOn(u, p)'  BY <1>12, <2>5, <3>10
      <4>5. QED  BY <3>7, <3>8, <4>3, <4>4, UsageAt
    <3>11. CASE ~goesOn
      <4>1. ~v1 /\ ~r.create /\ Instances("v2") # {}  BY <1>5, <2>5, <3>3, <3>11
      <4>2. HasInst(p)
        <5>1. PICK y \in pkgInst : TRUE  BY <4>1 DEF Instances
        <5>2. QED  BY <3>4, <5>1 DEF HasInst
      <4>3. pkg'[p].usage = "IN_USE" /\ HasInst(p)'  BY <1>8, <3>4, <3>6, <4>1, <4>2
      <4>4. \A v \in PkgReqs : ~InstReqOn(v, p)'
        <5>1. ~InstReqOn(u, p)'  BY <1>12, <2>5, <3>11
        <5>2. \A v \in PkgReqs : v # u => pkgReq'[v].pc \notin InstReqs  BY <1>11, <3>4
        <5>3. QED  BY <5>1, <5>2 DEF InstReqOn
      <4>5. pkg'[p].onboarding = "ONBOARDED"  BY <1>8, <3>4
      <4>6. QED  BY <3>7, <3>8, <4>3, <4>4, <4>5 DEF UsageInv
    <3>12. QED  BY <3>10, <3>11
  <2>6. QED  BY <2>4, <2>5
<1>14. QED  BY <1>13 DEF UsagesInv

\* ... and writes what it found.
LEMMA UsageSave ==
    ASSUME PkgInv, UsagesInv, NEW u \in PkgReqs, usage_save(u)
    PROVE  UsagesInv'
PROOF
<1>1. PkgTypes /\ InsertsOwn  BY DEF PkgInv
<1>2. PICK r : r = pkgReq[u]  OBVIOUS
<1>3. PICK q : q = r.p  OBVIOUS
<1>4. PICK d : d = IF r.inUse THEN "IN_USE" ELSE "NOT_IN_USE"  OBVIOUS
<1>5. /\ pkgReq[u].pc = "saveUsage" /\ ReqGoes(u, NoReq)
      /\ pkg' = IF Live(q) THEN [pkg EXCEPT ![q].usage = d] ELSE pkg
      /\ pkgInst' = IF ~Live(q) /\ r.inst.stack = "v1" /\ r.create THEN pkgInst \ {r.inst} ELSE pkgInst
      /\ UNCHANGED <<pkgSplit, usageRaced>>
  BY <1>2, <1>3, <1>4 DEF usage_save, ReqAt
<1>6. q \in Pkgs /\ r.pc = "saveUsage" /\ d \in {"IN_USE", "NOT_IN_USE"}
  BY <1>1, <1>2, <1>3, <1>4, <1>5, ReqFields
<1>7. NoReq.pc = "idle"  BY DEF NoReq
<1>8. pkgReq'[u] = NoReq /\ \A v \in PkgReqs : v # u => pkgReq'[v] = pkgReq[v]
  BY <1>1, <1>5 DEF PkgTypes, ReqGoes
<1>9. /\ Live(q) => pkg'[q].usage = d /\ pkg'[q].onboarding = pkg[q].onboarding /\ pkg'[q].state = pkg[q].state
      /\ \A x \in Pkgs : x # q => pkg'[x] = pkg[x]
  <2>1. CASE Live(q)
    <3>1. pkg' = [pkg EXCEPT ![q].usage = d]  BY <1>5, <2>1
    <3>2. QED  BY <1>1, <1>6, <3>1, UsageMoves
  <2>2. CASE ~Live(q)  BY <1>5, <2>2
  <2>3. QED  BY <2>1, <2>2
<1>10. \A v \in PkgReqs : pkgReq'[v].pc = "destroy" => pkgReq'[v] = pkgReq[v]  BY <1>7, <1>8
<1>11. ASSUME NEW p \in Pkgs, p \notin usageRaced', p \notin pkgSplit'  PROVE UsageInv(p)'
  <2>1. UsageInv(p)  BY <1>5, <1>11 DEF UsagesInv
  <2>2. CASE p # q
    <3>1. ASSUME NEW v \in PkgReqs, InstReqOn(v, p)  PROVE FALSE
      <4>1. UsageOf(v, p)  BY <2>1, <3>1 DEF UsageInv
      <4>2. u = v  BY <1>5, <4>1 DEF UsageOf, InstReqs
      <4>3. QED  BY <1>2, <1>3, <2>2, <3>1, <4>2 DEF InstReqOn
    <3>2. \A v \in PkgReqs : ~InstReqOn(v, p)'  BY <1>7, <1>8, <3>1 DEF InstReqOn, InstReqs
    <3>3. HasInst(p)' <=> HasInst(p)
      <4>1. r.inst.stack = "v1" /\ r.create => r.inst.p = q
        BY <1>1, <1>2, <1>3, <1>6 DEF InsertsOwn, OwnPackage
      <4>2. QED  BY <1>5, <2>2, <4>1 DEF HasInst
    <3>4. \A v \in PkgReqs : pkgReq'[v].pc = "destroy" /\ pkgReq'[v].p = p =>
              pkgReq[v].pc = "destroy" /\ pkgReq[v].p = p
      BY <1>10
    <3>5. pkg'[p] = pkg[p]  BY <1>9, <2>2
    <3>6. QED  BY <2>1, <3>1, <3>2, <3>3, <3>4, <3>5, UsageIdle DEF Live
  <2>3. CASE p = q
    <3>1. InstReqOn(u, p)  BY <1>2, <1>3, <1>6, <2>3 DEF InstReqOn, InstReqs
    <3>2. UsageOf(u, p) /\ Live(p)  BY <2>1, <3>1 DEF UsageInv
    <3>3. pkgInst' = pkgInst  BY <1>5, <2>3, <3>2
    <3>4. HasInst(p)' <=> HasInst(p)  BY <3>3 DEF HasInst
    <3>5. \A v \in PkgReqs : ~InstReqOn(v, p)'
      <4>1. \A v \in PkgReqs : v # u => pkgReq'[v].pc \notin InstReqs  BY <1>8, <3>2 DEF UsageOf
      <4>2. QED  BY <1>7, <1>8, <4>1 DEF InstReqOn, InstReqs
    <3>6. pkg'[p].usage = "IN_USE" <=> HasInst(p)'
      <4>1. r.inUse <=> HasInst(p)  BY <1>2, <1>6, <3>2 DEF UsageOf
      <4>2. QED  BY <1>4, <1>9, <2>3, <3>2, <3>4, <4>1
    <3>7. pkg'[p].onboarding = "ONBOARDED" /\ Live(p)'  BY <1>9, <2>3, <3>2 DEF UsageOf, Live
    <3>8. \A v \in PkgReqs : ~(pkgReq'[v].pc = "destroy" /\ pkgReq'[v].p = p)
      BY <1>10, <2>1, <3>1 DEF UsageInv
    <3>9. QED  BY <3>5, <3>6, <3>7, <3>8 DEF UsageInv
  <2>4. QED  BY <2>2, <2>3
<1>12. QED  BY <1>11 DEF UsagesInv

\* No package is in use at the start.
LEMMA UsageStart ==
    ASSUME VnfPackagesInit
    PROVE  UsagesInv
PROOF
<1>1. /\ pkg = [p \in Pkgs |-> [NewPkg EXCEPT !.state = "none"]]
      /\ pkgInst = {}
      /\ pkgReq = [u \in PkgReqs |-> NoReq]
  BY DEF VnfPackagesInit
<1>2. \A u \in PkgReqs : pkgReq[u].pc = "idle"  BY <1>1 DEF NoReq
<1>3. \A p \in Pkgs : ~Live(p) /\ ~HasInst(p)  BY <1>1 DEF Live, HasInst, NewPkg
<1>4. \A p \in Pkgs : \A u \in PkgReqs : ~InstReqOn(u, p)  BY <1>2 DEF InstReqOn, InstReqs
<1>5. QED  BY <1>2, <1>3, <1>4 DEF UsagesInv, UsageInv

\* Every step preserves the invariant of the usage state.
LEMMA UsageInductive ==
    ASSUME PkgInv, UsagesInv, [VnfPackagesNext]_pkgVars
    PROVE  UsagesInv'
PROOF
<1>1. ASSUME NEW p \in Pkgs, pkg_create(p)  PROVE UsagesInv'  BY <1>1, UsageNewPkg
<1>2. ASSUME NEW u \in PkgReqs, NEW p \in Pkgs, NEW from \in {"content", "uri"}, upload_read(u, p, from)
      PROVE  UsagesInv'
  BY <1>2, UsageRequests
<1>3. ASSUME NEW u \in PkgReqs, NEW p \in Pkgs, patch_read(u, p)  PROVE UsagesInv'  BY <1>3, UsageRequests
<1>4. ASSUME NEW u \in PkgReqs, NEW p \in Pkgs, pkg_delete(u, p)  PROVE UsagesInv'  BY <1>4, UsageDelete
<1>5. ASSUME NEW u \in PkgReqs, NEW p \in Pkgs, NEW i \in PkgInsts, NEW s \in Stacks, inst_create(u, i, s, p)
      PROVE  UsagesInv'
  BY <1>5, UsageCreate
<1>6. ASSUME NEW u \in PkgReqs, upload_mark(u) \/ store_csar(u) \/ upload_stored(u) \/ patch_save(u)
      PROVE  UsagesInv'
  BY <1>6, UsageRequests
<1>7. ASSUME NEW u \in PkgReqs, pkg_destroy(u)  PROVE UsagesInv'  BY <1>7, UsageDestroy
<1>8. ASSUME NEW u \in PkgReqs, inst_insert(u)  PROVE UsagesInv'  BY <1>8, UsageInsert
<1>9. ASSUME NEW u \in PkgReqs, usage_save(u)  PROVE UsagesInv'  BY <1>9, UsageSave
<1>10. ASSUME NEW u \in PkgReqs, NEW p \in Pkgs, usage_read(u, p)  PROVE UsagesInv'  BY <1>10, UsageRead
<1>11. ASSUME NEW u \in PkgReqs, NEW p \in Pkgs, NEW i \in pkgInst, inst_delete(u, i, p)  PROVE UsagesInv'
  BY <1>11, UsageDeleteInst
<1>12. ASSUME NEW c \in pkgCasts,
              conductor_upload_content(c) \/ conductor_upload_from_uri(c) \/ conductor_delete(c)
       PROVE  UsagesInv'
  BY <1>12, UsageCasts
<1>13. ASSUME NEW k \in PkgConductors,
              \/ load_csar_data(k) \/ extract_csar(k) \/ count_down(k) \/ check_downloading(k)
              \/ _onboard_vnf_package(k) \/ save_onboarded(k) \/ revert_upload_vnf_package(k)
              \/ delete_csar(k) \/ _run_cleanup_vnf_packages(k)
       PROVE  UsagesInv'
  BY <1>13, UsageConductors
<1>14. CASE UNCHANGED pkgVars
  <2>1. UNCHANGED <<pkg, pkgInst, usageRaced, pkgReq, pkgSplit>>  BY <1>14 DEF pkgVars
  <2>2. ReqsKept  BY <2>1 DEF ReqsKept
  <2>3. QED  BY <2>1, <2>2, UsageElsewhere
<1>15. CASE VnfPackagesNext
  BY <1>15, <1>1, <1>2, <1>3, <1>4, <1>5, <1>6, <1>7, <1>8, <1>9, <1>10, <1>11, <1>12, <1>13
     DEF VnfPackagesNext
<1>16. QED  BY <1>14, <1>15

\* The usage state says whether there are instances of the package, once no request on
\* one is under way and none has raced: a request writes what it read about the
\* instances, and nobody has changed them since.
THEOREM UsageIsTrue == VnfPackagesSpec => []UsageTrue
PROOF
<1>1. VnfPackagesInit => UsagesInv  BY UsageStart
<1>2. PkgInv /\ UsagesInv /\ [VnfPackagesNext]_pkgVars => UsagesInv'  BY UsageInductive
<1>3. PkgInv /\ UsagesInv => UsageTrue
  <2> SUFFICES ASSUME UsagesInv, NEW p \in Pkgs \ (usageRaced \cup pkgSplit), Quiet(p)
               PROVE  /\ (\E i \in pkgInst : i.p = p) => Live(p)
                      /\ Live(p) => ((\E i \in pkgInst : i.p = p) <=> pkg[p].usage = "IN_USE")
    BY DEF UsageTrue
  <2>1. UsageInv(p)  BY DEF UsagesInv
  <2>2. \A u \in PkgReqs : ~InstReqOn(u, p)  BY DEF Quiet, ReqAt, InstReqOn, InstReqs
  <2>3. QED  BY <2>1, <2>2 DEF UsageInv, HasInst
<1>4. QED  BY <1>1, <1>2, <1>3, PkgInvariant, PTL DEF VnfPackagesSpec
============================================================================
