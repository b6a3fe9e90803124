------------------------------- MODULE Policy -------------------------------
(***************************************************************************)
(* Sandbox policies (crates/beez-policy): what a workflow and a task ask   *)
(* for, joined into what one process tree gets. A section is a record of   *)
(* settings, which may be unset, and of lists; the order of a list never   *)
(* changes what it grants, so a list is a set.                             *)
(***************************************************************************)
EXTENDS Integers, Sequences, SequencesExt

Unset == "unset"
Settings == {"defaults", "localhost"}
or(first, second) == IF first # Unset THEN first ELSE second

\* What the other sets replaces the value here; the lists join.
merge(section, other) ==
  [field \in DOMAIN section |->
     IF field \in Settings THEN or(other[field], section[field])
     ELSE section[field] \cup other[field]]

\* SandboxPolicy::merge, of a section that may be missing on either side.
Missing == [groups |-> {}]
merge_section(base, other) ==
  IF other = Missing THEN base ELSE IF base = Missing THEN other ELSE merge(base, other)

\* GroupSelection: the default groups unless disabled, then its own.
selected(section, default_groups) ==
  (IF or(section.defaults, "yes") = "yes" THEN default_groups \ section.disable ELSE {})
    \cup section.groups

\* NetworkPolicy::allowed_domains, as texts of rules. A group is its texts.
allowed_domains(network, profile) ==
  network.allow
    \cup UNION (selected(network, profile.default_domain_groups) \cup profile.required_domain_groups)
localhost(network) == or(network.localhost, "no") = "yes"

\* FilesystemPolicy: the default groups of a list, as one set of paths, apply
\* unless the section says no, and the harness brings its own state.
with_defaults(filesystem, default_paths, list) ==
  (IF or(filesystem.defaults, "yes") = "yes" THEN default_paths ELSE {}) \cup filesystem[list]

-----------------------------------------------------------------------------
\* Domain rules. A host is a sequence of labels, split at the dots; a text is
\* what a manifest says: labels, and a port or none. Letters have a case.
AnyPort == 0
lower(label) == IF label = "HUB" THEN "hub" ELSE label
Starred == {"*", "a*"}             \* labels with a star in them
Odd == {"a_b"}                     \* labels with a character no host has

without_dots(host) == SubSeq(host, 1, SelectLastInSeq(host, LAMBDA label : label # ""))

\* DomainRule::from_str: a rule, or nothing. A text's port is none (-1), or a
\* number, or no u16 (65536).
Rejected == [host |-> <<>>, wildcard |-> FALSE, port |-> AnyPort]
from_str(text) ==
  LET wildcard == Len(text.host) > 1 /\ Head(text.host) = "*"
      host == without_dots(IF wildcard THEN Tail(text.host) ELSE text.host)
  IN  IF text.port \in {0, 65536} \/ host = <<>> \/ Range(host) \cap (Starred \cup Odd) # {}
      THEN Rejected
      ELSE [host |-> [i \in DOMAIN host |-> lower(host[i])], wildcard |-> wildcard,
            port |-> IF text.port = -1 THEN AnyPort ELSE text.port]

\* Mutant: a wildcard takes the bare domain, too.
matches_bare(rule, host, port) ==
  LET name == [i \in DOMAIN without_dots(host) |-> lower(host[i])]
  IN  /\ rule # Rejected /\ rule.port \in {AnyPort, port}
      /\ IF rule.wildcard THEN IsSuffix(rule.host, name) ELSE name = rule.host

\* A wildcard needs something, and not just a dot, before its domain.
matches(rule, host, port) ==
  LET name == [i \in DOMAIN without_dots(host) |-> lower(host[i])]
  IN  /\ rule # Rejected /\ rule.port \in {AnyPort, port}
      /\ IF rule.wildcard
         THEN /\ IsSuffix(rule.host, name) /\ Len(name) > Len(rule.host)
              /\ SubSeq(name, 1, Len(name) - Len(rule.host)) # <<"">>
         ELSE name = rule.host
=============================================================================
