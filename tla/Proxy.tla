------------------------------- MODULE Proxy --------------------------------
(***************************************************************************)
(* The way out of a sandbox (crates/beez-sandbox): one server, with its    *)
(* accept loop, its limit of connections, the threads that handle them and *)
(* the owner that drops it. It is the HTTP proxy, the SOCKS5 proxy, or one *)
(* of the forwarders of the bridge (the Unix socket on the host and the    *)
(* relay in the sandbox), which differ in the handler only.                *)
(*                                                                         *)
(* A definition whose comment starts with "Mutant" is no part of the       *)
(* model: it is a mistake the definition after it could have, and shows    *)
(* that a property would notice.                                           *)
(***************************************************************************)
EXTENDS Policy, FiniteSets

CONSTANTS
  Conns,          \* programs in the sandbox, each with one connection
  MAX_CONNECTIONS,
  Requests,       \* Requests[kind][c]: what a client may ask
  Servers,        \* what the server may be, "http", "socks" or "forward", and
                  \* the network sections of its workflow and of its task
  Profile,        \* HarnessProfile
  Addresses,      \* Addresses[host]: what the host resolves to, in its order
  Bytes,          \* bound: bytes each side of a tunnel writes
  Faults          \* what may fail: "aborted", "permanent", "wake", "gone",
                  \* "lookup", "duplicate"

Kinds == {"http", "socks", "forward"}
Fields == {"defaults", "groups", "disable", "allow", "localhost"}  \* of a network section

\* The texts that a server may be given.
Texts(workflow, task) ==
  workflow.allow \cup task.allow
    \cup UNION (workflow.groups \cup task.groups \cup Profile.default_domain_groups
                  \cup Profile.required_domain_groups)

ASSUME ConnsAssumption ==
  /\ IsFiniteSet(Conns) /\ {"wake", "nobody"} \cap Conns = {}
  /\ MAX_CONNECTIONS \in Nat /\ Bytes \in Nat

ASSUME ServersAssumption ==
  \A s \in Servers :
    /\ s.kind \in Kinds /\ DOMAIN s.workflow = Fields /\ DOMAIN s.task = Fields
    /\ \A text \in Texts(s.workflow, s.task) : text.host \in Seq(STRING)

ASSUME RequestsAssumption ==
  \A k \in Kinds, c \in Conns : \A q \in Requests[k][c] :
    q.host \in Seq(STRING) /\ q.port \in Nat \cup {-1} /\ q.early \in 0..Bytes

Sides == {"client", "upstream"}
other(side) == IF side = "client" THEN "upstream" ELSE "client"
Wake == "wake"          \* the connection of the owner to itself
Nobody == "nobody"
NoAddress == [is_local |-> FALSE, up |-> FALSE]
Local == -2             \* in a reported target, in the place of the port

VARIABLES
  kind, policy,
  rules,       \* Rules: what Proxy::start was given
  owner,       \* "up", "stop", "wake", "join", "gone"
  loop,        \* where the accept loop stands
  stop,        \* Server.stop
  backlog,     \* connections not accepted yet
  current,     \* the stream the loop has just accepted
  live,        \* the counter of the slots
  told_limit,  \* reported_limit
  pc,          \* where each connection stands
  request,
  rest,        \* addresses that connect has still to try
  last_error,
  upstream,    \* the address each connection has been let through to
  answer,      \* what the client was told; "dropped" is a tunnel that was
               \* promised and could not start
  reported,    \* Rules.reported: the targets that were denied
  sent, got,   \* got[c][side]: bytes of that side that the other one has read
  half,        \* half[c][side]: "open", "shut" for writing, or "gone"
  copying,     \* copying[c][side]: the thread that copies from that side
  late         \* history: connections made after the stop flag was set

server == <<owner, loop, stop, backlog, current, live, told_limit>>
handshake == <<request, rest, last_error, upstream, answer, reported>>
tunnel == <<sent, got, half, copying>>
vars == <<kind, policy, rules, server, pc, handshake, tunnel, late>>

both(v) == [c \in Conns |-> [side \in Sides |-> v]]
handlers == {c \in Conns : pc[c] \in {"read", "permits", "connect", "answer", "pipe", "closing"}}

Init ==
  /\ \E s \in Servers : kind = s.kind /\ policy = [workflow |-> s.workflow, task |-> s.task]
  /\ rules = LET network == merge(policy.workflow, policy.task) IN
              [domains |-> {from_str(text) : text \in allowed_domains(network, Profile)},
               localhost |-> localhost(network)]
  /\ owner = "up" /\ loop = "check" /\ stop = FALSE
  /\ backlog = <<>> /\ current = Nobody /\ live = 0 /\ told_limit = FALSE
  /\ pc = [c \in Conns |-> "off"]
  /\ request = [c \in Conns |-> [step |-> "none"]]
  /\ rest = [c \in Conns |-> <<>>] /\ last_error = [c \in Conns |-> "not_found"]
  /\ upstream = [c \in Conns |-> NoAddress] /\ answer = [c \in Conns |-> "none"]
  /\ reported = {}
  /\ sent = both(0) /\ got = both(0) /\ half = both("open") /\ copying = both(TRUE)
  /\ late = {}

goto(c, step) == pc' = [pc EXCEPT ![c] = step]

-----------------------------------------------------------------------------
\* The clients, and what is at the other end.

\* A client connects and writes its request, perhaps with bytes after it.
dial(c, q) ==
  /\ pc[c] = "off" /\ ~(owner = "gone" /\ loop = "ended")
  /\ goto(c, "queued") /\ backlog' = Append(backlog, c)
  /\ request' = [request EXCEPT ![c] = q]
  /\ sent' = [sent EXCEPT ![c]["client"] = q.early]
  /\ late' = IF stop THEN late \cup {c} ELSE late
  /\ UNCHANGED <<kind, policy, rules, owner, loop, stop, current, live, told_limit,
                 rest, last_error, upstream, answer, reported, got, half, copying>>

peer_step(c, side) ==
  /\ pc[c] \in {"answer", "pipe"} /\ half[c][side] = "open"
  /\ \/ /\ sent[c][side] < Bytes /\ sent' = [sent EXCEPT ![c][side] = @ + 1]
        /\ UNCHANGED half
     \/ \E how \in {"shut"} \cup ({"gone"} \cap Faults) :
          half' = [half EXCEPT ![c][side] = how] /\ UNCHANGED sent
  /\ UNCHANGED <<kind, policy, rules, server, pc, handshake, got, copying, late>>

-----------------------------------------------------------------------------
\* The accept loop (Server::spawn).

check_stop ==
  /\ loop = "check"
  /\ loop' = IF stop THEN "ended" ELSE "accept"
  /\ UNCHANGED <<kind, policy, rules, owner, stop, backlog, current, live, told_limit, pc, handshake, tunnel, late>>

accept ==
  /\ loop = "accept" /\ backlog # <<>>
  /\ current' = Head(backlog) /\ backlog' = Tail(backlog)
  /\ loop' = "recheck"
  /\ UNCHANGED <<kind, policy, rules, owner, stop, live, told_limit, pc, handshake, tunnel, late>>

\* A client that went away before the accept is passed over; any other error
\* ends the loop.
accept_fails ==
  /\ loop = "accept"
  /\ \/ /\ "aborted" \in Faults /\ backlog # <<>> /\ loop' = "check"
        /\ backlog' = Tail(backlog)
        /\ pc' = IF Head(backlog) = Wake THEN pc ELSE [pc EXCEPT ![Head(backlog)] = "over"]
     \/ "permanent" \in Faults /\ loop' = "ended" /\ UNCHANGED <<backlog, pc>>
  /\ UNCHANGED <<kind, policy, rules, owner, stop, current, live, told_limit, handshake, tunnel, late>>

\* Mutant: the flag is looked at before the accept only.
recheck_never ==
  /\ loop = "recheck"
  /\ \/ current = Wake /\ loop' = "ended" /\ UNCHANGED pc
     \/ current # Wake /\ loop' = "claim" /\ UNCHANGED pc
  /\ UNCHANGED <<kind, policy, rules, owner, stop, backlog, current, live, told_limit, handshake, tunnel, late>>

recheck ==
  /\ loop = "recheck"
  /\ \/ /\ stop /\ loop' = "ended"
        /\ pc' = IF current = Wake THEN pc ELSE [pc EXCEPT ![current] = "over"]
     \/ ~stop /\ loop' = "claim" /\ UNCHANGED pc
  /\ UNCHANGED <<kind, policy, rules, owner, stop, backlog, current, live, told_limit, handshake, tunnel, late>>

\* ConnectionSlot::claim counts first and takes it back when that was one too
\* many. A thread of its own handles the connection, and holds the slot.
claim ==
  /\ loop = "claim" /\ live' = live + 1
  /\ \/ /\ live < MAX_CONNECTIONS /\ loop' = "check"
        /\ goto(current, IF kind = "forward" THEN "connect" ELSE "read")
        /\ rest' = IF kind = "forward" THEN [rest EXCEPT ![current] = Addresses[request[current].host]] ELSE rest
     \/ live >= MAX_CONNECTIONS /\ loop' = "undo" /\ UNCHANGED <<pc, rest>>
  /\ UNCHANGED <<kind, policy, rules, owner, stop, backlog, current, told_limit,
                 request, last_error, upstream, answer, reported, tunnel, late>>

\* Mutant: the count of the refused connection stays.
undo_nothing ==
  /\ loop = "undo" /\ loop' = "check" /\ told_limit' = TRUE
  /\ goto(current, "over")
  /\ UNCHANGED <<kind, policy, rules, owner, stop, backlog, current, live, handshake, tunnel, late>>

undo ==
  /\ loop = "undo" /\ live' = live - 1 /\ loop' = "check" /\ told_limit' = TRUE
  /\ goto(current, "over")
  /\ UNCHANGED <<kind, policy, rules, owner, stop, backlog, current, handshake, tunnel, late>>

-----------------------------------------------------------------------------
\* The owner drops the server.

set_stop ==
  /\ owner = "up" /\ stop' = TRUE /\ owner' = "wake"
  /\ UNCHANGED <<kind, policy, rules, loop, backlog, current, live, told_limit, pc, handshake, tunnel, late>>

\* Mutant: the owner joins the thread although it could not wake it.
wake_join ==
  /\ owner = "wake" /\ owner' = "join"
  /\ \/ backlog' = Append(backlog, Wake)
     \/ "wake" \in Faults /\ UNCHANGED backlog
  /\ UNCHANGED <<kind, policy, rules, loop, stop, current, live, told_limit, pc, handshake, tunnel, late>>

wake ==
  /\ owner = "wake"
  /\ \/ backlog' = Append(backlog, Wake) /\ owner' = "join"
     \/ "wake" \in Faults /\ owner' = "gone" /\ UNCHANGED backlog
  /\ UNCHANGED <<kind, policy, rules, loop, stop, current, live, told_limit, pc, handshake, tunnel, late>>

join ==
  /\ owner = "join" /\ loop = "ended" /\ owner' = "gone"
  /\ UNCHANGED <<kind, policy, rules, loop, stop, backlog, current, live, told_limit, pc, handshake, tunnel, late>>

-----------------------------------------------------------------------------
\* A handler (serve_http, serve_socks, forward).

refuse(c, how) == answer' = [answer EXCEPT ![c] = how] /\ goto(c, "closing")

\* What the proxies say to a request that names no target they can use:
\* read_head and parse_request, negotiate_auth and read_target. "cut" is an
\* end, a silence of HANDSHAKE_TIMEOUT or, for HTTP, a head without an end.
Refusal == [http  |-> [cut |-> "bad_request", malformed |-> "bad_request"],
            socks |-> [cut |-> "nothing", version |-> "nothing", auth |-> "no_auth",
                       command |-> "unsupported", literal |-> "denied", kind |-> "unsupported"]]

read(c) ==
  /\ pc[c] = "read"
  /\ \/ request[c].step \in DOMAIN Refusal[kind] /\ refuse(c, Refusal[kind][request[c].step])
     \/ request[c].step \notin DOMAIN Refusal[kind] /\ goto(c, "permits") /\ UNCHANGED answer
  /\ UNCHANGED <<kind, policy, rules, server, request, rest, last_error, upstream, reported, tunnel, late>>

\* split_authority: a CONNECT goes to 443 unless it says otherwise, any other
\* request to 80.
port_of(q) ==
  IF q.port # -1 THEN q.port ELSE IF q.step = "tunnel" THEN 443 ELSE 80

\* Rules::report: a line for each target, once.
report(target) == reported' = reported \cup {target}

\* Rules::permits, then the name is looked up (to_socket_addrs), which may
\* fail: no address is tried, and the answer is a general failure.
permits(c) ==
  /\ pc[c] = "permits"
  /\ LET q == request[c] IN
     \/ /\ \E rule \in rules.domains : matches(rule, q.host, port_of(q))
        /\ rest' = [rest EXCEPT ![c] = Addresses[q.host]]
        /\ goto(c, "connect") /\ UNCHANGED <<answer, reported>>
     \/ /\ \E rule \in rules.domains : matches(rule, q.host, port_of(q))
        /\ "lookup" \in Faults /\ refuse(c, "failed") /\ UNCHANGED <<rest, reported>>
     \/ /\ \A rule \in rules.domains : ~matches(rule, q.host, port_of(q))
        /\ report(<<q.host, port_of(q)>>) /\ refuse(c, "denied") /\ UNCHANGED rest
  /\ UNCHANGED <<kind, policy, rules, server, request, last_error, upstream, tunnel, late>>

\* is_local, and what a local address is told apart from.
permits_address(address) == kind = "forward" \/ rules.localhost \/ ~address.is_local

\* connect: one address after the other, until one lets us in.
connect(c) ==
  /\ pc[c] = "connect" /\ rest[c] # <<>>
  /\ LET address == Head(rest[c]) IN
     \/ /\ ~permits_address(address)
        /\ report(<<request[c].host, Local>>)
        /\ last_error' = [last_error EXCEPT ![c] = "denied"]
        /\ rest' = [rest EXCEPT ![c] = Tail(@)] /\ UNCHANGED <<pc, upstream>>
     \/ /\ permits_address(address) /\ address.up
        /\ upstream' = [upstream EXCEPT ![c] = address]
        /\ goto(c, "answer") /\ UNCHANGED <<reported, last_error, rest>>
     \/ /\ permits_address(address) /\ ~address.up
        /\ last_error' = [last_error EXCEPT ![c] = "failed"]
        /\ rest' = [rest EXCEPT ![c] = Tail(@)] /\ UNCHANGED <<pc, reported, upstream>>
  /\ UNCHANGED <<kind, policy, rules, server, request, answer, tunnel, late>>

\* No address is left: the last error decides the answer. A forwarder just
\* closes.
failure(c) ==
  IF kind = "forward" THEN "nothing"
  ELSE IF last_error[c] = "denied" THEN "denied"
  ELSE IF last_error[c] = "not_found" /\ kind = "socks" THEN "unreachable" ELSE "failed"

connect_fails(c) ==
  /\ pc[c] = "connect" /\ rest[c] = <<>>
  /\ refuse(c, failure(c))
  /\ UNCHANGED <<kind, policy, rules, server, request, rest, last_error, upstream, reported, tunnel, late>>

\* The client is told, unless its request is forwarded; what came with an
\* HTTP head goes to the other end, and then the copying starts. A write to a
\* peer that is gone ends the handler; so does pipe when it cannot duplicate a
\* stream, after the client was told and before a byte is copied.
establish(c) ==
  /\ pc[c] = "answer"
  /\ \/ /\ \/ answer' = [answer EXCEPT ![c] = "established"] /\ goto(c, "pipe")
           \/ "duplicate" \in Faults /\ refuse(c, "dropped")
        /\ got' = IF kind = "http" THEN [got EXCEPT ![c]["client"] = request[c].early] ELSE got
     \/ /\ "gone" \in {half[c]["client"], half[c]["upstream"]}
        /\ goto(c, "closing") /\ UNCHANGED <<answer, got>>
  /\ UNCHANGED <<kind, policy, rules, server, request, rest, last_error, upstream, reported, sent, half, copying, late>>

\* Mutant: a thread that cannot write keeps trying.
copy_on(c, side) ==
  /\ pc[c] = "pipe" /\ copying[c][side]
  /\ \/ /\ got[c][side] < sent[c][side] /\ half[c][other(side)] # "gone"
        /\ got' = [got EXCEPT ![c][side] = @ + 1] /\ UNCHANGED copying
     \/ /\ got[c][side] = sent[c][side] /\ half[c][side] # "open"
        /\ copying' = [copying EXCEPT ![c][side] = FALSE] /\ UNCHANGED got
     \/ got[c][side] < sent[c][side] /\ half[c][other(side)] = "gone" /\ UNCHANGED <<got, copying>>
  /\ UNCHANGED <<kind, policy, rules, server, pc, handshake, sent, half, late>>

\* One of the two threads of pipe copies a byte, or finds the end of what it
\* reads or nobody to write to, and shuts the other side.
copy(c, side) ==
  /\ pc[c] = "pipe" /\ copying[c][side]
  /\ \/ /\ got[c][side] < sent[c][side] /\ half[c][other(side)] # "gone"
        /\ got' = [got EXCEPT ![c][side] = @ + 1] /\ UNCHANGED copying
     \/ /\ \/ got[c][side] = sent[c][side] /\ half[c][side] # "open"
           \/ half[c][side] = "gone"
           \/ got[c][side] < sent[c][side] /\ half[c][other(side)] = "gone"
        /\ copying' = [copying EXCEPT ![c][side] = FALSE] /\ UNCHANGED got
  /\ UNCHANGED <<kind, policy, rules, server, pc, handshake, sent, half, late>>

\* Mutant: the first thread that is done ends the tunnel.
pipe_ends_early(c) ==
  /\ pc[c] = "pipe" /\ \E side \in Sides : ~copying[c][side]
  /\ goto(c, "closing")
  /\ UNCHANGED <<kind, policy, rules, server, handshake, tunnel, late>>

pipe_ends(c) ==
  /\ pc[c] = "pipe" /\ \A side \in Sides : ~copying[c][side]
  /\ goto(c, "closing")
  /\ UNCHANGED <<kind, policy, rules, server, handshake, tunnel, late>>

\* The handler has dropped its streams; then the slot goes. What the streams
\* held is forgotten.
release(c) ==
  /\ pc[c] = "closing" /\ goto(c, "over") /\ live' = live - 1
  /\ sent' = [sent EXCEPT ![c] = [side \in Sides |-> 0]] /\ got' = [got EXCEPT ![c] = [side \in Sides |-> 0]]
  /\ half' = [half EXCEPT ![c] = [side \in Sides |-> "open"]]
  /\ copying' = [copying EXCEPT ![c] = [side \in Sides |-> TRUE]]
  /\ rest' = [rest EXCEPT ![c] = <<>>] /\ last_error' = [last_error EXCEPT ![c] = "not_found"]
  /\ UNCHANGED <<kind, policy, rules, owner, loop, stop, backlog, current, told_limit,
                 request, upstream, answer, reported, late>>

-----------------------------------------------------------------------------
\* The owner is gone and nobody has anything to do.
Over == owner = "gone" /\ handlers = {} /\ UNCHANGED vars

server_step == check_stop \/ accept \/ recheck \/ claim \/ undo
handler_step(c) ==
  \/ read(c) \/ permits(c) \/ connect(c) \/ connect_fails(c) \/ establish(c)
  \/ \E side \in Sides : copy(c, side)
  \/ pipe_ends(c) \/ release(c)

Next ==
  \/ server_step \/ accept_fails
  \/ set_stop \/ wake \/ join
  \/ \E c \in Conns :
       \/ \E q \in Requests[kind][c] : dial(c, q)
       \/ \E side \in Sides : peer_step(c, side)
       \/ handler_step(c)
  \/ Over

\* The threads run on. Nobody has to connect, to write or to end, no error has
\* to come, and the server need not be dropped.
Fairness ==
  /\ WF_vars(server_step) /\ WF_vars(wake \/ join)
  /\ \A c \in Conns : WF_vars(handler_step(c))
Spec == Init /\ [][Next]_vars /\ Fairness

-----------------------------------------------------------------------------
\* Properties.

\* Every variable keeps its type: those of the server, of a connection and of
\* its tunnel.
ServerTypeOK ==
  /\ kind \in Kinds /\ stop \in BOOLEAN /\ told_limit \in BOOLEAN
  /\ owner \in {"up", "wake", "join", "gone"}
  /\ loop \in {"check", "accept", "recheck", "claim", "undo", "ended"}
  /\ backlog \in Seq(Conns \cup {Wake}) /\ current \in Conns \cup {Wake, Nobody}
  /\ live \in Int /\ late \in SUBSET Conns
ConnTypeOK ==
  /\ pc \in [Conns -> {"off", "queued", "read", "permits", "connect", "answer", "pipe", "closing", "over"}]
  /\ last_error \in [Conns -> {"not_found", "denied", "failed"}]
  /\ DOMAIN request = Conns
  /\ \A c \in Conns : pc[c] # "off" => request[c] \in Requests[kind][c]
TunnelTypeOK ==
  /\ sent \in [Conns -> [Sides -> 0..Bytes]] /\ got \in [Conns -> [Sides -> 0..Bytes]]
  /\ half \in [Conns -> [Sides -> {"open", "shut", "gone"}]] /\ copying \in [Conns -> [Sides -> BOOLEAN]]
TypeOK == ServerTypeOK /\ ConnTypeOK /\ TunnelTypeOK

\* ConnectionSlot: the counter is the number of handlers, but for the one that
\* the loop is about to take back, and never more than MAX_CONNECTIONS handlers
\* run, whatever ends while the loop claims.
SlotsCounted ==
  /\ live = Cardinality(handlers) + IF loop = "undo" THEN 1 ELSE 0
  /\ Cardinality(handlers) <= MAX_CONNECTIONS

\* A host is meant by a text when it is the text's host, or for a star some
\* non-empty name below it, on the text's port (docs: "A leading `*.` matches
\* any subdomain but not the bare domain").
Plain(host) == [i \in DOMAIN without_dots(host) |-> lower(host[i])]
Meant(text, host, port) ==
  /\ text.port \in {-1, port}
  /\ IF Head(text.host) = "*" /\ Len(text.host) > 1
     THEN \E name \in {SubSeq(Plain(host), 1, n) : n \in 1..Len(Plain(host))} :
            name # <<"">> /\ Plain(host) = name \o Plain(Tail(text.host))
     ELSE Plain(host) = Plain(text.host)

\* The last word on a setting is the task's, or the workflow's when the task
\* is silent.
LastWord(setting, word) ==
  \/ policy.task[setting] = word
  \/ policy.workflow[setting] = word /\ policy.task[setting] = Unset

\* A text is granted when a section or one of its groups names it, when the
\* harness needs it, or by a default group that nobody has disabled.
GrantedTexts ==
  LET sections == {policy.workflow, policy.task} IN
  (UNION {section.allow \cup UNION section.groups : section \in sections})
    \cup (UNION Profile.required_domain_groups)
    \cup UNION {group \in Profile.default_domain_groups :
                  ~LastWord("defaults", "no") /\ \A section \in sections : group \notin section.disable}

\* A proxy is connected only where the policy lets it: to a host that a granted
\* text means, and to no address of this machine unless the policy's last word
\* is that it may, whichever address of the host answered (Rules::permits,
\* Rules::permits_address, connect).
OnlyAllowed ==
  \A c \in Conns : upstream[c] # NoAddress /\ kind # "forward" =>
    /\ \E text \in GrantedTexts : Meant(text, request[c].host, port_of(request[c]))
    /\ upstream[c].is_local => LastWord("localhost", "yes")

\* SandboxPolicy (sandbox.rs:9): "A task cannot take back a rule the workflow
\* granted." A client that asks for a host the workflow names is never denied
\* because of the name.
WorkflowGrantsStay ==
  \A c \in Conns : request[c].step \in {"tunnel", "forward", "domain"} =>
    \A text \in policy.workflow.allow \cup UNION policy.workflow.groups :
      from_str(text) # Rejected /\ Meant(text, request[c].host, port_of(request[c])) =>
        <<request[c].host, port_of(request[c])>> \notin reported

\* What the policy grants is what can be reached.
ReachesAsGranted == OnlyAllowed /\ WorkflowGrantsStay

\* pipe and serve_http: a tunnel ends only when both sides are done, and a peer
\* that stays to read gets every byte its peer wrote before it shut down, those
\* that came with the head too. Only a tunnel that could not start drops what
\* it was given.
BytesArrive ==
  \A c \in Conns, side \in Sides :
    /\ pc[c] \in {"pipe", "closing"} /\ answer[c] = "established" /\ ~copying[c][side]
         => got[c][side] = sent[c][side] \/ "gone" \in {half[c]["client"], half[c]["upstream"]}
    /\ pc[c] = "closing" /\ answer[c] = "established" => ~copying[c][side]

\* Drop for Server: a connection made after the flag was set is never handled,
\* also when the loop was already waiting for it, and when the wake failed.
StopHeard == \A c \in late : pc[c] \in {"queued", "over"}

\* Drop for Server ends: it joins the loop only when that is sure to end.
DropEnds == owner = "wake" ~> owner = "gone"

\* A handler ends once both peers have: every handshake comes to an end, and a
\* half-closed tunnel holds its slot only while one side may still write.
HandlerEnds ==
  \A c \in Conns :
    pc[c] = "read" \/ (pc[c] = "pipe" /\ \A side \in Sides : half[c][side] # "open")
      ~> pc[c] = "over" \/ \E side \in Sides : half[c][side] = "open" /\ pc[c] = "pipe"

\* A client that connected is taken or refused, unless the loop has ended.
ClientTaken ==
  \A c \in Conns : pc[c] = "queued" ~> pc[c] # "queued" \/ loop = "ended"

\* A connection does not hang in the server.
ConnectionsEnd == ClientTaken /\ HandlerEnds
=============================================================================
