-------------------------- MODULE PrometheusRules --------------------------
(***************************************************************************)
(* The rule files of a PM job or a threshold on the Prometheus hosts of its *)
(* metadata (class PrometheusPluginPmBase): what uploading and deleting     *)
(* them leaves behind, host by host in the order of targetsInfo.            *)
(***************************************************************************)
EXTENDS Naturals, Sequences, FiniteSets

CONSTANT RuleHosts      \* target_list: the hosts, in order

ASSUME RuleHostsAssumption == RuleHosts \in Seq({RuleHosts[i] : i \in DOMAIN RuleHosts})

Hosts == {RuleHosts[i] : i \in DOMAIN RuleHosts}

\* How the connection to a host turns out in one request: it works; it fails
\* with SSHException or an error status; it fails in another way.
Links == [Hosts -> {"up", "refused", "broken"}]

\* First position of RuleHosts whose host is in bad, or one past the end.
FirstBad(bad) ==
    CHOOSE i \in 1..(Len(RuleHosts) + 1) :
        /\ i <= Len(RuleHosts) => RuleHosts[i] \in bad
        /\ \A j \in 1..(i - 1) : RuleHosts[j] \notin bad

Before(i) == {RuleHosts[j] : j \in 1..(i - 1)}

\* Deleting a file that a host does not have raises an OSError, which neither
\* delete_rules nor _cleanup_error ignores.
_delete_rule_raises(files, link) ==
    {h \in Hosts : link[h] = "broken" \/ (link[h] = "up" /\ h \notin files)}

\* The loop over _delete_rule: the files left, and whether it ran to its end.
delete_rules(files, link) ==
    LET bad == _delete_rule_raises(files, link)
        reached == Before(FirstBad(bad))
    IN [ok |-> bad = {}, files |-> files \ {h \in reached : link[h] = "up"}]

\* _upload_rule on one host after the other, then the reloads; an error makes
\* _cleanup_error try to delete the file on every host.  A host whose promtool
\* rejects the file has it all the same, as has one whose reload fails.
upload_rules(link, rejected, link2) ==
    LET bad == {h \in Hosts : link[h] # "up" \/ h \in rejected}
        k == FirstBad(bad)
        put == Before(k) \cup (IF k <= Len(RuleHosts) /\ link[RuleHosts[k]] = "up"
                               THEN {RuleHosts[k]} ELSE {})
    IN IF bad = {} THEN [ok |-> TRUE, files |-> Hosts]
       ELSE [ok |-> FALSE, files |-> delete_rules(put, link2).files]

UploadOutcomes ==
    {upload_rules(link, rejected, link2) : link \in Links, rejected \in SUBSET Hosts, link2 \in Links}

DeleteOutcomes(files) == {delete_rules(files, link) : link \in Links}

============================================================================
