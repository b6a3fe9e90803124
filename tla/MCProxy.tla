------------------------------ MODULE MCProxy -------------------------------
(* Instances of Proxy for TLC. *)
EXTENDS Proxy, TLC

CONSTANTS c1, c2

\* hub.com and any name below it on 443, and a name of this machine.
Hub == <<"hub", "com">>
Upper == <<"www", "HUB", "com", "">>
Box == <<"box">>
Lost == <<"lost", "hub", "com">>
Port == <<"127.0.0.1">>
text(host, port) == [host |-> host, port |-> port]
AnyHub == {text(<<"*">> \o Hub, 443), text(<<"a_b">>, -1)}
JustBox == {text(Box, -1)}

section(groups, disable, allow, local) ==
  [defaults |-> Unset, groups |-> groups, disable |-> disable, allow |-> allow, localhost |-> local]

\* The task disables the group that the workflow names, adds a host of its own
\* and says no to this machine; or the workflow lets the task reach it, and the
\* task disables a default group.
Groups == [workflow |-> section({AnyHub}, {}, {}, "yes"), task |-> section({}, {AnyHub}, JustBox, "no")]
OpenBox == [workflow |-> section({}, {}, JustBox, "yes"), task |-> section({}, {AnyHub}, {}, Unset)]
FiveServers == {[kind |-> k] @@ p : k \in {"http", "socks"}, p \in {Groups, OpenBox}} \cup {[kind |-> "forward"] @@ Groups}
OneDefault == [default_domain_groups |-> {AnyHub}, required_domain_groups |-> {}]

far(up) == [is_local |-> FALSE, up |-> up]
near == [is_local |-> TRUE, up |-> TRUE]
Names == (Hub :> <<far(TRUE)>>) @@ (Upper :> <<far(FALSE), far(TRUE)>>)
           @@ (Box :> <<far(FALSE), near>>) @@ (Lost :> <<>>) @@ (Port :> <<near>>)

ask(step, host, port, early) == [step |-> step, host |-> host, port |-> port, early |-> early]
fail(step) == ask(step, Hub, -1, 0)

\* The first client asks for anything, the second for what may be denied.
Asked ==
  [http |-> (c1 :> {fail("cut"), fail("malformed"), ask("tunnel", Upper, -1, 1),
                    ask("tunnel", Hub, -1, 0), ask("forward", Box, -1, 0)})
            @@ (c2 :> {ask("tunnel", Hub, -1, 0)}),
   socks |-> (c1 :> {fail(s) : s \in {"cut", "auth", "literal"}}
                      \cup {ask("domain", Upper, 443, 1), ask("domain", Box, 80, 0), ask("domain", Lost, 443, 0)})
             @@ (c2 :> {ask("domain", Hub, 443, 0)}),
   forward |-> [c \in {c1, c2} |-> {ask("none", Port, 0, 1)}]]
=============================================================================
