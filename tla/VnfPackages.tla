---------------------------- MODULE VnfPackages ----------------------------
(***************************************************************************)
(* VNF packages: the requests on /vnf_packages (vnfpkgm/v1/controller.py),  *)
(* the conductors that onboard a package (conductor_server.py), and the     *)
(* usage state that v1 and v2 instances give it (vnflcm/v1/controller.py,   *)
(* local_nfvo.py).                                                          *)
(*                                                                         *)
(* Every conductor extracts the CSAR into a directory of its own:           *)
(* load_csar_data is cast to all of them.  The row counts the conductors    *)
(* that are at it in downloading, and the one that finds 0 after its own    *)
(* extraction onboards the package.  save() writes the attributes that its  *)
(* caller set, and raises if the row is deleted.                            *)
(*                                                                         *)
(* All packages here hold the same VNFD; the table vnf_package_vnfd admits  *)
(* one row for it that is not deleted.                                      *)
(***************************************************************************)
EXTENDS Integers, Sequences, FiniteSets

CONSTANTS Pkgs,           \* identifiers of packages
          PkgConductors,  \* tacker-conductor processes
          PkgReqs,        \* threads of the API server
          PkgInsts,       \* identifiers of VNF instances
          MaxUploads      \* bounds uploads

ASSUME VnfPackagesAssumption ==
    /\ MaxUploads \in Nat
    /\ IsFiniteSet(PkgConductors) /\ PkgConductors # {}
    /\ Pkgs # {}

VARIABLES pkg,        \* the rows of vnf_packages
          vnfdRow,    \* packages with a row in vnf_package_vnfd
          flavours,   \* packages with rows in vnf_deployment_flavours
          glance,     \* packages whose CSAR is in the store
          extracted,  \* <<k, p>>: conductor k has the directory of p
          pkgInst,    \* rows of instances: [id, stack, p]
          pkgReq,     \* step of each request thread
          pkgCond,    \* step of each conductor in load_csar_data
          pkgCasts,   \* casts to any one conductor
          fanout,     \* fanout[k]: casts to all conductors, at conductor k
          uploads,    \* number of uploads so far
          counted,    \* history: uploads that some conductor has extracted
          pkgSplit,   \* history: packages whose uploads or downloads overlapped
          pkgCut,     \* history: packages deleted in the middle of an upload
          usageRaced  \* history: packages whose usage state was updated in a race

pkgVars == <<pkg, vnfdRow, flavours, glance, extracted, pkgInst, pkgReq, pkgCond, pkgCasts,
             fanout, uploads, counted, pkgSplit, pkgCut, usageRaced>>

NoReq == [pc |-> "idle"]
Stacks == {"v1", "v2"}
InstReqs == {"insert", "usage", "saveUsage"}  \* steps of a request on an instance

PkgRow == [state : {"none", "live", "deleted"},
           onboarding : {"CREATED", "UPLOADING", "PROCESSING", "ONBOARDED"},
           operational : {"ENABLED", "DISABLED"}, usage : {"IN_USE", "NOT_IN_USE"}, downloading : Int]
NewPkg == [state |-> "live", onboarding |-> "CREATED", operational |-> "DISABLED",
           usage |-> "NOT_IN_USE", downloading |-> 0]

VnfPackagesTypeOK ==
    /\ pkg \in [Pkgs -> PkgRow]
    /\ vnfdRow \subseteq Pkgs /\ flavours \subseteq Pkgs /\ glance \subseteq Pkgs
    /\ extracted \subseteq PkgConductors \X Pkgs
    /\ pkgInst \subseteq [id : PkgInsts, stack : Stacks, p : Pkgs]
    /\ pkgCond \in [PkgConductors -> [pc : {"idle", "load", "count", "check", "onboard", "save", "revert"},
                                      p : Pkgs, n : 0..MaxUploads]]
    /\ \A k \in PkgConductors : fanout[k] \in Seq([m : {"load", "delete"}, p : Pkgs, n : 0..MaxUploads])
    /\ pkgSplit \cup pkgCut \cup usageRaced \subseteq Pkgs

VnfPackagesInit ==
    /\ pkg = [p \in Pkgs |-> [NewPkg EXCEPT !.state = "none"]]
    /\ vnfdRow = {} /\ flavours = {} /\ glance = {} /\ extracted = {} /\ pkgInst = {}
    /\ pkgReq = [u \in PkgReqs |-> NoReq]
    /\ pkgCond = [k \in PkgConductors |-> [pc |-> "idle", p |-> CHOOSE p \in Pkgs : TRUE, n |-> 0]]
    /\ pkgCasts = {}
    /\ fanout = [k \in PkgConductors |-> <<>>]
    /\ uploads = 0
    /\ counted = {} /\ pkgSplit = {} /\ pkgCut = {} /\ usageRaced = {}

Live(p) == pkg[p].state = "live"
ReqAt(u, step) == pkgReq[u].pc = step
ReqGoes(u, r) == pkgReq' = [pkgReq EXCEPT ![u] = r]
CondGoes(k, step) == pkgCond' = [pkgCond EXCEPT ![k].pc = step]
Fanout(m, p, n) == fanout' = [k \in PkgConductors |-> Append(fanout[k], [m |-> m, p |-> p, n |-> n])]

\* An upload of p is under way: in a request, in a cast or at a conductor.
Uploading(p, u) ==
    \/ \E v \in PkgReqs \ {u} : pkgReq[v].pc \in {"mark", "store", "stored"} /\ pkgReq[v].p = p
    \/ \E c \in pkgCasts : c.m \in {"content", "uri"} /\ c.p = p
    \/ \E k \in PkgConductors : \/ pkgCond[k].pc # "idle" /\ pkgCond[k].p = p
                                \/ \E i \in DOMAIN fanout[k] : fanout[k][i].p = p

----------------------------------------------------------------------------
(* VnfPkgmController *)

pkg_create(p) ==
    /\ pkg[p].state = "none"
    /\ pkg' = [pkg EXCEPT ![p] = NewPkg]
    /\ UNCHANGED <<vnfdRow, flavours, glance, extracted, pkgInst, pkgReq, pkgCond, pkgCasts, fanout,
                   uploads, counted, pkgSplit, pkgCut, usageRaced>>

\* upload_vnf_package_content and upload_vnf_package_from_uri up to their check.
upload_read(u, p, from) ==
    /\ uploads < MaxUploads
    /\ ReqAt(u, "idle")
    /\ Live(p) /\ pkg[p].onboarding = "CREATED"
    /\ uploads' = uploads + 1
    /\ ReqGoes(u, [pc |-> "mark", p |-> p, from |-> from, n |-> uploads'])
    /\ UNCHANGED <<pkg, vnfdRow, flavours, glance, extracted, pkgInst, pkgCond, pkgCasts, fanout,
                   counted, pkgSplit, pkgCut, usageRaced>>

\* The package is UPLOADING; from a URI it is the conductor that uploads it.
upload_mark(u) ==
    LET p == pkgReq[u].p
        uri == pkgReq[u].from = "uri"
    IN
    /\ ReqAt(u, "mark")
    /\ pkg' = IF Live(p) THEN [pkg EXCEPT ![p].onboarding = "UPLOADING"] ELSE pkg
    /\ ReqGoes(u, IF Live(p) /\ ~uri THEN [pkgReq[u] EXCEPT !.pc = "store"] ELSE NoReq)
    /\ pkgCasts' = IF Live(p) /\ uri THEN pkgCasts \cup {[m |-> "uri", p |-> p, n |-> pkgReq[u].n]} ELSE pkgCasts
    /\ pkgSplit' = IF Uploading(p, u) THEN pkgSplit \cup {p} ELSE pkgSplit
    /\ UNCHANGED <<vnfdRow, flavours, glance, extracted, pkgInst, pkgCond, fanout, uploads, counted,
                   pkgCut, usageRaced>>

\* store_csar: the store refuses a second CSAR of a package.
store_csar(u) ==
    LET p == pkgReq[u].p IN
    /\ ReqAt(u, "store")
    /\ \/ /\ p \notin glance
          /\ glance' = glance \cup {p}
          /\ ReqGoes(u, [pkgReq[u] EXCEPT !.pc = "stored"])
          /\ UNCHANGED pkg
       \/ /\ pkg' = IF Live(p) THEN [pkg EXCEPT ![p].onboarding = "CREATED"] ELSE pkg
          /\ ReqGoes(u, NoReq)
          /\ UNCHANGED glance
    /\ UNCHANGED <<vnfdRow, flavours, extracted, pkgInst, pkgCond, pkgCasts, fanout, uploads, counted,
                   pkgSplit, pkgCut, usageRaced>>

\* The location is saved and the conductor told; no save, no cast.
upload_stored(u) ==
    LET p == pkgReq[u].p IN
    /\ ReqAt(u, "stored")
    /\ pkgCasts' = IF Live(p) THEN pkgCasts \cup {[m |-> "content", p |-> p, n |-> pkgReq[u].n]} ELSE pkgCasts
    /\ ReqGoes(u, NoReq)
    /\ UNCHANGED <<pkg, vnfdRow, flavours, glance, extracted, pkgInst, pkgCond, fanout, uploads, counted,
                   pkgSplit, pkgCut, usageRaced>>

patch_read(u, p) ==
    /\ ReqAt(u, "idle")
    /\ Live(p) /\ pkg[p].onboarding = "ONBOARDED"
    /\ ReqGoes(u, [pc |-> "patch", p |-> p,
                   operational |-> IF pkg[p].operational = "ENABLED" THEN "DISABLED" ELSE "ENABLED"])
    /\ UNCHANGED <<pkg, vnfdRow, flavours, glance, extracted, pkgInst, pkgCond, pkgCasts, fanout, uploads,
                   counted, pkgSplit, pkgCut, usageRaced>>

patch_save(u) ==
    LET p == pkgReq[u].p IN
    /\ ReqAt(u, "patch")
    /\ pkg' = IF Live(p) THEN [pkg EXCEPT ![p].operational = pkgReq[u].operational] ELSE pkg
    /\ ReqGoes(u, NoReq)
    /\ UNCHANGED <<vnfdRow, flavours, glance, extracted, pkgInst, pkgCond, pkgCasts, fanout, uploads,
                   counted, pkgSplit, pkgCut, usageRaced>>

pkg_delete(u, p) ==
    /\ ReqAt(u, "idle")
    /\ Live(p) /\ pkg[p].operational = "DISABLED" /\ pkg[p].usage = "NOT_IN_USE"
    /\ ReqGoes(u, [pc |-> "destroy", p |-> p, seen |-> pkg[p].onboarding])
    /\ usageRaced' = IF \E v \in PkgReqs : pkgReq[v].pc \in InstReqs /\ pkgReq[v].p = p
                     THEN usageRaced \cup {p} ELSE usageRaced
    /\ UNCHANGED <<pkg, vnfdRow, flavours, glance, extracted, pkgInst, pkgCond, pkgCasts, fanout, uploads,
                   counted, pkgSplit, pkgCut>>

\* Whether a CSAR is to be deleted is decided by the onboarding state read
\* with the check.
pkg_destroy(u) ==
    LET p == pkgReq[u].p IN
    /\ ReqAt(u, "destroy")
    /\ pkg' = [pkg EXCEPT ![p].state = "deleted"]
    /\ vnfdRow' = vnfdRow \ {p}
    /\ flavours' = flavours \ {p}
    /\ pkgCasts' = IF pkgReq[u].seen = "ONBOARDED" THEN pkgCasts \cup {[m |-> "delete", p |-> p, n |-> 0]}
                   ELSE pkgCasts
    /\ pkgCut' = IF \/ pkg[p].onboarding # pkgReq[u].seen
                    \/ \E v \in PkgReqs : pkgReq[v].pc \in {"mark", "store", "stored"} /\ pkgReq[v].p = p
                    \/ \E k \in PkgConductors : pkgCond[k].pc \in {"onboard", "save"} /\ pkgCond[k].p = p
                 THEN pkgCut \cup {p} ELSE pkgCut
    /\ ReqGoes(u, NoReq)
    /\ UNCHANGED <<glance, extracted, pkgInst, pkgCond, fanout, uploads, counted, pkgSplit, usageRaced>>

----------------------------------------------------------------------------
(* Instances and the usage state: VnfLcmController of v1, and the built-in *)
(* NFVO that is told of v2 instances.                                      *)

Instances(s) == {i \in pkgInst : i.stack = s}

\* Another request on an instance is under way, or there are instances of both
\* APIs, or of a package with this VNFD before p; v1 takes a package that is
\* not ONBOARDED yet, which its count then passes over; or the package is just
\* being deleted.
UsageRace(u, p, s) ==
    \/ \E v \in PkgReqs \ {u} : pkgReq[v].pc \in InstReqs
    \/ \E i \in pkgInst : i.p # p \/ i.stack # s
    \/ s = "v1" /\ pkg[p].onboarding # "ONBOARDED"
    \/ \E v \in PkgReqs : pkgReq[v].pc = "destroy" /\ pkgReq[v].p = p

\* POST vnf_instances: v2 wants an ONBOARDED and ENABLED package, v1 a VNFD.
inst_create(u, i, s, p) ==
    /\ ReqAt(u, "idle")
    /\ \A x \in pkgInst : x.id # i
    /\ p \in vnfdRow
    /\ s = "v2" => Live(p) /\ pkg[p].onboarding = "ONBOARDED" /\ pkg[p].operational = "ENABLED"
    /\ ReqGoes(u, [pc |-> "insert", p |-> p, inst |-> [id |-> i, stack |-> s, p |-> p], create |-> TRUE])
    /\ usageRaced' = IF UsageRace(u, p, s) THEN usageRaced \cup {p} ELSE usageRaced
    /\ UNCHANGED <<pkg, vnfdRow, flavours, glance, extracted, pkgInst, pkgCond, pkgCasts, fanout, uploads,
                   counted, pkgSplit, pkgCut>>

inst_insert(u) ==
    /\ ReqAt(u, "insert")
    /\ \A x \in pkgInst : x.id # pkgReq[u].inst.id
    /\ pkgInst' = pkgInst \cup {pkgReq[u].inst}
    /\ ReqGoes(u, [pkgReq[u] EXCEPT !.pc = "usage"])
    /\ UNCHANGED <<pkg, vnfdRow, flavours, glance, extracted, pkgCond, pkgCasts, fanout, uploads,
                   counted, pkgSplit, pkgCut, usageRaced>>

\* DELETE vnf_instances/{id}; v1 looks for the VNFD first, and p is the package
\* that has it now.
inst_delete(u, i, p) ==
    /\ ReqAt(u, "idle")
    /\ i \in pkgInst
    /\ \A v \in PkgReqs : pkgReq[v].pc \in InstReqs => pkgReq[v].inst # i
    /\ p \in IF i.stack = "v1" THEN vnfdRow ELSE {i.p}
    /\ pkgInst' = pkgInst \ {i}
    /\ ReqGoes(u, [pc |-> "usage", p |-> p, inst |-> i, create |-> FALSE])
    /\ usageRaced' = IF UsageRace(u, p, i.stack) THEN usageRaced \cup {p} ELSE usageRaced
    /\ UNCHANGED <<pkg, vnfdRow, flavours, glance, extracted, pkgCond, pkgCasts, fanout, uploads,
                   counted, pkgSplit, pkgCut>>

\* Mutant of is_package_in_use: an instance that is being deleted counts.
CountsDeleted(p, r) == pkg[p].onboarding = "ONBOARDED" /\ Instances("v1") \cup {r.inst} # {}

is_package_in_use(p, r) == pkg[p].onboarding = "ONBOARDED" /\ Instances("v1") # {}

\* The package p and the instances are read; the built-in NFVO asks first which
\* package has the VNFD now.  v1 fails if the package is gone, and takes a new
\* instance back; the built-in NFVO only logs it.
usage_read(u, p) ==
    LET r == pkgReq[u]
        v1 == r.inst.stack = "v1"
        inUse == IF v1 THEN is_package_in_use(p, r) ELSE r.create
        goesOn == Live(p) /\ (v1 \/ (p \in vnfdRow /\ (r.create \/ Instances("v2") = {})))
    IN
    /\ ReqAt(u, "usage")
    /\ p \in IF v1 \/ vnfdRow = {} THEN {r.p} ELSE vnfdRow
    /\ ReqGoes(u, IF goesOn
                  THEN [pc |-> "saveUsage", p |-> p, inst |-> r.inst, create |-> r.create, inUse |-> inUse]
                  ELSE NoReq)
    /\ pkgInst' = IF ~Live(p) /\ v1 /\ r.create THEN pkgInst \ {r.inst} ELSE pkgInst
    /\ usageRaced' = IF p # r.p THEN usageRaced \cup {p} ELSE usageRaced
    /\ UNCHANGED <<pkg, vnfdRow, flavours, glance, extracted, pkgCond, pkgCasts, fanout, uploads,
                   counted, pkgSplit, pkgCut>>

usage_save(u) ==
    LET r == pkgReq[u] IN
    /\ ReqAt(u, "saveUsage")
    /\ pkg' = IF Live(r.p) THEN [pkg EXCEPT ![r.p].usage = IF r.inUse THEN "IN_USE" ELSE "NOT_IN_USE"] ELSE pkg
    /\ pkgInst' = IF ~Live(r.p) /\ r.inst.stack = "v1" /\ r.create THEN pkgInst \ {r.inst} ELSE pkgInst
    /\ ReqGoes(u, NoReq)
    /\ UNCHANGED <<vnfdRow, flavours, glance, extracted, pkgCond, pkgCasts, fanout, uploads, counted,
                   pkgSplit, pkgCut, usageRaced>>

----------------------------------------------------------------------------
(* Conductor *)

\* The row is PROCESSING with downloading 0, and all conductors load the CSAR;
\* a row that is deleted makes save raise, and the CSAR is deleted again.
Processing(p, n) ==
    IF Live(p)
    THEN /\ pkg' = [pkg EXCEPT ![p].onboarding = "PROCESSING", ![p].downloading = 0]
         /\ Fanout("load", p, n)
    ELSE /\ UNCHANGED pkg
         /\ Fanout("delete", p, n)

conductor_upload_content(c) ==
    /\ c \in pkgCasts /\ c.m = "content"
    /\ pkgCasts' = pkgCasts \ {c}
    /\ Processing(c.p, c.n)
    /\ glance' = IF Live(c.p) THEN glance ELSE glance \ {c.p}
    /\ UNCHANGED <<vnfdRow, flavours, extracted, pkgInst, pkgReq, pkgCond, uploads, counted, pkgSplit,
                   pkgCut, usageRaced>>

\* A URI that cannot be read, or a CSAR that cannot be stored, sets the
\* package back to CREATED and deletes its flavours.
conductor_upload_from_uri(c) ==
    /\ c \in pkgCasts /\ c.m = "uri"
    /\ pkgCasts' = pkgCasts \ {c}
    /\ \/ /\ c.p \notin glance
          /\ glance' = IF Live(c.p) THEN glance \cup {c.p} ELSE glance
          /\ Processing(c.p, c.n)
          /\ UNCHANGED flavours
       \/ /\ pkg' = IF Live(c.p) THEN [pkg EXCEPT ![c.p].onboarding = "CREATED"] ELSE pkg
          /\ flavours' = flavours \ {c.p}
          /\ UNCHANGED <<glance, fanout>>
    /\ UNCHANGED <<vnfdRow, extracted, pkgInst, pkgReq, pkgCond, uploads, counted, pkgSplit, pkgCut,
                   usageRaced>>

\* load_csar_data begins; the row is found even if it is deleted.
load_csar_data(k) ==
    LET c == Head(fanout[k]) IN
    /\ fanout[k] # <<>> /\ c.m = "load"
    /\ pkgCond[k].pc = "idle"
    /\ fanout' = [fanout EXCEPT ![k] = Tail(@)]
    /\ pkg' = [pkg EXCEPT ![c.p].downloading = @ + 1]
    /\ pkgCond' = [pkgCond EXCEPT ![k] = [pc |-> "load", p |-> c.p, n |-> c.n]]
    /\ pkgSplit' = IF c.n \in counted THEN pkgSplit \cup {c.p} ELSE pkgSplit
    /\ UNCHANGED <<vnfdRow, flavours, glance, extracted, pkgInst, pkgReq, pkgCasts, uploads, counted,
                   pkgCut, usageRaced>>

\* The CSAR is read from the store and extracted; it may turn out invalid.
extract_csar(k) ==
    LET p == pkgCond[k].p IN
    /\ pkgCond[k].pc = "load"
    /\ \/ /\ p \in glance
          /\ extracted' = extracted \cup {<<k, p>>}
          /\ CondGoes(k, "count") \/ CondGoes(k, "revert")
       \/ /\ p \notin glance
          /\ CondGoes(k, "revert")
          /\ UNCHANGED extracted
    /\ UNCHANGED <<pkg, vnfdRow, flavours, glance, pkgInst, pkgReq, pkgCasts, fanout, uploads, counted,
                   pkgSplit, pkgCut, usageRaced>>

count_down(k) ==
    LET p == pkgCond[k].p IN
    /\ pkgCond[k].pc = "count"
    /\ pkg' = [pkg EXCEPT ![p].downloading = @ - 1]
    /\ CondGoes(k, "check")
    /\ counted' = counted \cup {pkgCond[k].n}
    /\ pkgSplit' = IF \E j \in PkgConductors : pkgCond[j].p = p /\ pkgCond[j].pc \in {"check", "onboard", "save"}
                   THEN pkgSplit \cup {p} ELSE pkgSplit
    /\ UNCHANGED <<vnfdRow, flavours, glance, extracted, pkgInst, pkgReq, pkgCasts, fanout, uploads,
                   pkgCut, usageRaced>>

\* Mutant of MayOnboard: the first conductor onboards the package.
MayOnboardFirst(p) == pkg[p].onboarding = "PROCESSING"

MayOnboard(p) == pkg[p].downloading = 0 /\ pkg[p].onboarding = "PROCESSING"

\* Mutant of check_downloading: a package that is gone is passed over.
CheckSilently(k) ==
    /\ pkgCond[k].pc = "check"
    /\ CondGoes(k, IF Live(pkgCond[k].p) /\ MayOnboard(pkgCond[k].p) THEN "onboard" ELSE "idle")
    /\ UNCHANGED <<pkg, vnfdRow, flavours, glance, extracted, pkgInst, pkgReq, pkgCasts, fanout, uploads,
                   counted, pkgSplit, pkgCut, usageRaced>>

\* get_by_id raises for a package that is deleted.
check_downloading(k) ==
    LET p == pkgCond[k].p IN
    /\ pkgCond[k].pc = "check"
    /\ CondGoes(k, IF ~Live(p) THEN "revert" ELSE IF MayOnboard(p) THEN "onboard" ELSE "idle")
    /\ UNCHANGED <<pkg, vnfdRow, flavours, glance, extracted, pkgInst, pkgReq, pkgCasts, fanout, uploads,
                   counted, pkgSplit, pkgCut, usageRaced>>

\* The rows of the VNFD, unique, then of the flavours.
_onboard_vnf_package(k) ==
    LET p == pkgCond[k].p IN
    /\ pkgCond[k].pc = "onboard"
    /\ \/ /\ vnfdRow = {}
          /\ vnfdRow' = {p}
          /\ flavours' = flavours \cup {p}
          /\ CondGoes(k, "save")
       \/ /\ vnfdRow # {}
          /\ CondGoes(k, "revert")
          /\ UNCHANGED <<vnfdRow, flavours>>
    /\ UNCHANGED <<pkg, glance, extracted, pkgInst, pkgReq, pkgCasts, fanout, uploads, counted, pkgSplit,
                   pkgCut, usageRaced>>

save_onboarded(k) ==
    LET p == pkgCond[k].p IN
    /\ pkgCond[k].pc = "save"
    /\ pkg' = IF Live(p) THEN [pkg EXCEPT ![p].onboarding = "ONBOARDED", ![p].operational = "ENABLED"] ELSE pkg
    /\ CondGoes(k, IF Live(p) THEN "idle" ELSE "revert")
    /\ UNCHANGED <<vnfdRow, flavours, glance, extracted, pkgInst, pkgReq, pkgCasts, fanout, uploads, counted,
                   pkgSplit, pkgCut, usageRaced>>

\* Mutant of revert_upload_vnf_package: the CSAR stays in the store.
RevertKeepsCsar(k) ==
    LET p == pkgCond[k].p IN
    /\ pkgCond[k].pc = "revert"
    /\ Fanout("delete", p, pkgCond[k].n)
    /\ flavours' = IF Live(p) THEN flavours \ {p} ELSE flavours
    /\ pkg' = IF Live(p) THEN [pkg EXCEPT ![p].onboarding = "CREATED"] ELSE pkg
    /\ CondGoes(k, "idle")
    /\ UNCHANGED <<vnfdRow, glance, extracted, pkgInst, pkgReq, pkgCasts, uploads, counted, pkgSplit, pkgCut,
                   usageRaced>>

\* The flavours of a package that is deleted cannot be loaded, which ends it.
revert_upload_vnf_package(k) ==
    LET p == pkgCond[k].p IN
    /\ pkgCond[k].pc = "revert"
    /\ glance' = glance \ {p}
    /\ Fanout("delete", p, pkgCond[k].n)
    /\ flavours' = IF Live(p) THEN flavours \ {p} ELSE flavours
    /\ pkg' = IF Live(p) THEN [pkg EXCEPT ![p].onboarding = "CREATED"] ELSE pkg
    /\ CondGoes(k, "idle")
    /\ UNCHANGED <<vnfdRow, extracted, pkgInst, pkgReq, pkgCasts, uploads, counted, pkgSplit, pkgCut, usageRaced>>

conductor_delete(c) ==
    /\ c \in pkgCasts /\ c.m = "delete"
    /\ pkgCasts' = pkgCasts \ {c}
    /\ glance' = glance \ {c.p}
    /\ Fanout("delete", c.p, 0)
    /\ UNCHANGED <<pkg, vnfdRow, flavours, extracted, pkgInst, pkgReq, pkgCond, uploads, counted, pkgSplit,
                   pkgCut, usageRaced>>

delete_csar(k) ==
    /\ fanout[k] # <<>> /\ Head(fanout[k]).m = "delete"
    /\ fanout' = [fanout EXCEPT ![k] = Tail(@)]
    /\ extracted' = extracted \ {<<k, Head(fanout[k]).p>>}
    /\ UNCHANGED <<pkg, vnfdRow, flavours, glance, pkgInst, pkgReq, pkgCond, pkgCasts, uploads, counted,
                   pkgSplit, pkgCut, usageRaced>>

\* The periodic task, for the packages deleted since it ran last.
_run_cleanup_vnf_packages(k) ==
    /\ \E p \in Pkgs : pkg[p].state = "deleted" /\ <<k, p>> \in extracted
    /\ extracted' = {x \in extracted : x[1] # k \/ pkg[x[2]].state # "deleted"}
    /\ UNCHANGED <<pkg, vnfdRow, flavours, glance, pkgInst, pkgReq, pkgCond, pkgCasts, fanout, uploads,
                   counted, pkgSplit, pkgCut, usageRaced>>

----------------------------------------------------------------------------
VnfPackagesNext ==
    \/ \E p \in Pkgs : pkg_create(p)
    \/ \E u \in PkgReqs, p \in Pkgs :
          \/ \E from \in {"content", "uri"} : upload_read(u, p, from)
          \/ patch_read(u, p)
          \/ pkg_delete(u, p)
          \/ \E i \in PkgInsts, s \in Stacks : inst_create(u, i, s, p)
    \/ \E u \in PkgReqs :
          \/ upload_mark(u) \/ store_csar(u) \/ upload_stored(u)
          \/ patch_save(u) \/ pkg_destroy(u)
          \/ inst_insert(u) \/ usage_save(u)
          \/ \E p \in Pkgs : usage_read(u, p) \/ \E i \in pkgInst : inst_delete(u, i, p)
    \/ \E c \in pkgCasts :
          conductor_upload_content(c) \/ conductor_upload_from_uri(c) \/ conductor_delete(c)
    \/ \E k \in PkgConductors :
          \/ load_csar_data(k) \/ extract_csar(k) \/ count_down(k) \/ check_downloading(k)
          \/ _onboard_vnf_package(k) \/ save_onboarded(k) \/ revert_upload_vnf_package(k)
          \/ delete_csar(k) \/ _run_cleanup_vnf_packages(k)

VnfPackagesSpec == VnfPackagesInit /\ [][VnfPackagesNext]_pkgVars

----------------------------------------------------------------------------
(* Properties *)

\* Conductor k has nothing to do with p any more.
Done(k, p) ==
    /\ pkgCond[k].pc = "idle" \/ pkgCond[k].p # p
    /\ \A i \in DOMAIN fanout[k] : fanout[k][i].p # p

\* Nobody is at work on p.
Quiet(p) ==
    /\ \A u \in PkgReqs : ReqAt(u, "idle") \/ pkgReq[u].p # p
    /\ \A c \in pkgCasts : c.p # p
    /\ \A k \in PkgConductors : Done(k, p)

\* A package is ONBOARDED only when it is all there: the CSAR, the rows, and
\* the directory of every conductor that has seen its cast.  Except when two
\* uploads overlapped, or a conductor began or ended its extraction when
\* another was already past its own (then downloading is 0 too early, or twice).
OnboardedComplete ==
    \A p \in Pkgs \ pkgSplit :
        Live(p) /\ pkg[p].onboarding = "ONBOARDED" =>
            /\ p \in glance /\ p \in vnfdRow /\ p \in flavours
            /\ \A k \in PkgConductors : Done(k, p) => <<k, p>> \in extracted

\* A package whose upload failed can be uploaded again as soon as its row says
\* so, even while other conductors are still at the first attempt: nothing of
\* it is left that the second would collide with, in the store or in the
\* tables.  Under the same condition.
UploadRetryable ==
    \A p \in Pkgs \ pkgSplit :
        Live(p) /\ pkg[p].onboarding = "CREATED" =>
            p \notin glance /\ p \notin vnfdRow /\ p \notin flavours

\* A package that was deleted leaves no CSAR in the store and no VNFD that
\* another package could collide with, even when conductors were loading it.
\* Except when it was deleted before its upload was stored, or between the
\* last look at it and the end of its onboarding.
DeletedClean ==
    \A p \in Pkgs \ (pkgCut \cup pkgSplit) :
        pkg[p].state = "deleted" /\ Quiet(p) => p \notin glance /\ p \notin vnfdRow

\* An instance's package is there, and is IN_USE exactly while it has
\* instances, whatever requests come between; except that two requests on
\* instances of its VNFD at a time, or instances of both APIs, undo each
\* other's usage state, that the deletion of a package does not look again
\* after its check (the instances it leaves then count for the next package
\* with the VNFD), and that v1 takes a package before it is ONBOARDED.
UsageTrue ==
    \A p \in Pkgs \ (usageRaced \cup pkgSplit) :
        Quiet(p) =>
            /\ (\E i \in pkgInst : i.p = p) => Live(p)
            /\ Live(p) => ((\E i \in pkgInst : i.p = p) <=> pkg[p].usage = "IN_USE")

============================================================================
