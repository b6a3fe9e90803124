---------------------------- MODULE ProxyProofs -----------------------------
(***************************************************************************)
(* Theorems about Proxy, for any number of connections and slots, any      *)
(* requests, policies and addresses, and with every fault.                 *)
(***************************************************************************)
EXTENDS Proxy, FiniteSetTheorems, WellFoundedInduction, TLAPS

-----------------------------------------------------------------------------
\* Where a thread of its own handles a connection, and what its steps leave.

Handling == {"read", "permits", "connect", "answer", "pipe", "closing"}

\* A handler that goes on stays a handler and leaves the server alone.
LEMMA HandlerGoesOn ==
  ASSUME TypeOK, NEW c \in Conns, handler_step(c), ~release(c)
  PROVE  /\ UNCHANGED <<kind, policy, rules, server, request, late>>
         /\ pc[c] \in Handling
         /\ \E to \in Handling : pc' = [pc EXCEPT ![c] = to]
<1>1. CASE read(c) \/ permits(c) \/ connect_fails(c) \/ establish(c) \/ pipe_ends(c)
  BY <1>1 DEF read, permits, connect_fails, establish, pipe_ends, refuse, goto, handshake, Handling
<1>2. CASE connect(c) \/ \E side \in Sides : copy(c, side)
  <2>1. pc' = pc \/ pc' = [pc EXCEPT ![c] = "answer"]
    BY <1>2 DEF connect, copy, goto
  <2>2. pc[c] \in {"connect", "pipe"} /\ UNCHANGED <<kind, policy, rules, server, request, late>>
    BY <1>2 DEF connect, copy, handshake
  <2>3. pc = [pc EXCEPT ![c] = pc[c]]
    BY DEF TypeOK, ConnTypeOK
  <2> QED BY <2>1, <2>2, <2>3 DEF Handling
<1> QED BY <1>1, <1>2 DEF handler_step

\* A cell of a table changes, or a row of it.
LEMMA CellType ==
  ASSUME NEW S, NEW D, NEW T, NEW f \in [S -> [D -> T]], NEW x \in S, NEW y \in D, NEW v \in T
  PROVE  [f EXCEPT ![x][y] = v] \in [S -> [D -> T]]
OBVIOUS

LEMMA RowType ==
  ASSUME NEW S, NEW D, NEW T, NEW f \in [S -> [D -> T]], NEW x \in S, NEW v \in T
  PROVE  [f EXCEPT ![x] = [y \in D |-> v]] \in [S -> [D -> T]]
OBVIOUS

\* The connections that are handled are the handlers.
LEMMA HandlersAre == handlers = {c \in Conns : pc[c] \in Handling}
BY DEF handlers, Handling

-----------------------------------------------------------------------------
\* Types and the queue. A connection is in one place only: in the backlog, in
\* the hands of the loop, or with a handler. The owner's own connection comes
\* after the stop flag, so the loop never claims a slot for it.

Taken == {"recheck", "claim", "undo"}

QueueInv ==
  /\ owner # "up" => stop
  /\ \A i \in 1..Len(backlog) :
       IF backlog[i] = Wake THEN stop ELSE pc[backlog[i]] = "queued"
  /\ \A i, j \in 1..Len(backlog) : backlog[i] = backlog[j] => i = j \/ backlog[i] = Wake
  /\ loop \in Taken =>
       /\ current # Nobody
       /\ current = Wake => loop = "recheck" /\ stop
       /\ current # Wake => /\ pc[current] = "queued"
                           /\ \A i \in 1..Len(backlog) : backlog[i] # current

BaseInv == TypeOK /\ QueueInv

\* The names of the loop's own are no connections.
LEMMA NamesApart == Wake \notin Conns /\ Nobody \notin Conns /\ Wake # Nobody
BY ConnsAssumption DEF Wake, Nobody

LEMMA BaseInit == Init => BaseInv
<1> SUFFICES ASSUME Init PROVE BaseInv
  OBVIOUS
<1>1. kind \in Kinds
  BY ServersAssumption DEF Init
<1>2. /\ sent \in [Conns -> [Sides -> 0..Bytes]] /\ got \in [Conns -> [Sides -> 0..Bytes]]
      /\ half \in [Conns -> [Sides -> {"open", "shut", "gone"}]]
      /\ copying \in [Conns -> [Sides -> BOOLEAN]]
  BY ConnsAssumption DEF Init, both
<1>3. ServerTypeOK
  <2>1. backlog \in Seq(Conns \cup {Wake}) /\ late \in SUBSET Conns
    BY DEF Init
  <2>2. /\ owner = "up" /\ loop = "check" /\ current = Nobody /\ live = 0
        /\ stop = FALSE /\ told_limit = FALSE
    BY DEF Init
  <2>3. stop \in BOOLEAN /\ told_limit \in BOOLEAN
    BY <2>2, Zenon
  <2>4. live \in Int
    BY <2>2
  <2> QED BY <1>1, <2>1, <2>2, <2>3, <2>4, Zenon DEF ServerTypeOK
<1>4. ConnTypeOK
  <2>1. /\ pc = [c \in Conns |-> "off"] /\ last_error = [c \in Conns |-> "not_found"]
        /\ request = [c \in Conns |-> [step |-> "none"]]
    BY DEF Init
  <2> QED BY <2>1 DEF ConnTypeOK
<1>5. QueueInv
  BY DEF Init, QueueInv, Taken
<1> QED BY <1>2, <1>3, <1>4, <1>5 DEF BaseInv, TypeOK, TunnelTypeOK

\* The server's own steps keep the types.
LEMMA TypeServer ==
  ASSUME BaseInv, server_step \/ accept_fails \/ set_stop \/ wake \/ join
  PROVE  TypeOK'
<1>0. ServerTypeOK /\ ConnTypeOK /\ TunnelTypeOK /\ QueueInv
  BY DEF BaseInv, TypeOK
<1>1. ServerTypeOK'
  <2>1. CASE check_stop \/ recheck \/ set_stop \/ join \/ undo \/ claim
    <3>1. UNCHANGED <<kind, backlog, current, late>>
      BY <2>1 DEF check_stop, recheck, set_stop, join, undo, claim
    <3>2. /\ stop' \in BOOLEAN /\ told_limit' \in BOOLEAN
          /\ owner' \in {"up", "wake", "join", "gone"}
          /\ loop' \in {"check", "accept", "recheck", "claim", "undo", "ended"}
      BY <1>0, <2>1 DEF check_stop, recheck, set_stop, join, undo, claim, ServerTypeOK
    <3>3. live' \in Int
      BY <1>0, <2>1 DEF check_stop, recheck, set_stop, join, undo, claim, ServerTypeOK
    <3> QED BY <1>0, <3>1, <3>2, <3>3 DEF ServerTypeOK
  <2>2. CASE accept \/ accept_fails
    <3>1. backlog # <<>> => Head(backlog) \in Conns \cup {Wake} /\ Tail(backlog) \in Seq(Conns \cup {Wake})
      BY <1>0 DEF ServerTypeOK
    <3> QED BY <1>0, <2>2, <3>1 DEF accept, accept_fails, ServerTypeOK
  <2>3. CASE wake
    <3>1. Append(backlog, Wake) \in Seq(Conns \cup {Wake})
      BY <1>0 DEF ServerTypeOK
    <3> QED BY <1>0, <2>3, <3>1 DEF wake, ServerTypeOK
  <2> QED BY <2>1, <2>2, <2>3 DEF server_step
<1>2. ConnTypeOK'
  <2>1. UNCHANGED <<kind, request, last_error>>
    BY DEF server_step, check_stop, accept, recheck, claim, undo, accept_fails, set_stop, wake, join, handshake
  <2>2. CASE UNCHANGED pc
    BY <1>0, <2>1, <2>2 DEF ConnTypeOK
  <2>3. ASSUME NEW c \in Conns, pc[c] = "queued",
               NEW to \in {"over", "read", "connect"}, pc' = [pc EXCEPT ![c] = to]
        PROVE  ConnTypeOK'
    BY <1>0, <2>1, <2>3 DEF ConnTypeOK
  <2>4. CASE accept_fails /\ ~UNCHANGED pc
    <3>1. /\ backlog # <<>> /\ Head(backlog) # Wake /\ pc' = [pc EXCEPT ![Head(backlog)] = "over"]
      BY <2>4 DEF accept_fails
    <3>2. Head(backlog) = backlog[1] /\ 1 \in 1..Len(backlog) /\ Head(backlog) \in Conns \cup {Wake}
      BY <1>0, <3>1 DEF ServerTypeOK
    <3>3. Head(backlog) \in Conns /\ pc[Head(backlog)] = "queued"
      BY <1>0, <3>1, <3>2 DEF QueueInv
    <3> QED BY <2>3, <3>1, <3>3
  <2>5. CASE (recheck \/ claim \/ undo) /\ ~UNCHANGED pc
    <3>1. /\ loop \in Taken /\ current # Wake
          /\ \E to \in {"over", "read", "connect"} : pc' = [pc EXCEPT ![current] = to]
      BY <1>0, <2>5 DEF recheck, claim, undo, goto, Taken, QueueInv
    <3>2. current \in Conns /\ pc[current] = "queued"
      BY <1>0, <3>1 DEF QueueInv, ServerTypeOK
    <3> QED BY <2>3, <3>1, <3>2
  <2> QED BY <2>2, <2>4, <2>5 DEF server_step, check_stop, accept, set_stop, wake, join
<1>3. TunnelTypeOK'
  <2>1. UNCHANGED tunnel
    BY DEF server_step, check_stop, accept, recheck, claim, undo, accept_fails, set_stop, wake, join
  <2> QED BY <1>0, <2>1 DEF tunnel, TunnelTypeOK
<1> QED BY <1>1, <1>2, <1>3 DEF TypeOK

\* The steps of the clients, of their peers and of the handlers keep the types.
LEMMA TypeConn ==
  ASSUME TypeOK, NEW c \in Conns,
         \/ \E q \in Requests[kind][c] : dial(c, q)
         \/ \E side \in Sides : peer_step(c, side)
         \/ handler_step(c)
  PROVE  TypeOK'
<1>0. ServerTypeOK /\ ConnTypeOK /\ TunnelTypeOK /\ kind \in Kinds
  BY DEF TypeOK, ServerTypeOK
<1>1. CASE \E q \in Requests[kind][c] : dial(c, q)
  <2>1. PICK q \in Requests[kind][c] : dial(c, q)
    BY <1>1
  <2>2. q.early \in 0..Bytes
    BY <1>0, RequestsAssumption
  <2>3. TunnelTypeOK'
    <3>1. sent' = [sent EXCEPT ![c]["client"] = q.early] /\ "client" \in Sides /\ UNCHANGED <<got, half, copying>>
      BY <2>1 DEF dial, Sides
    <3> QED BY <1>0, <2>2, <3>1, CellType DEF TunnelTypeOK
  <2>4. ConnTypeOK'
    BY <1>0, <2>1 DEF dial, goto, ConnTypeOK
  <2>5. ServerTypeOK'
    <3>1. Append(backlog, c) \in Seq(Conns \cup {Wake})
      BY <1>0 DEF ServerTypeOK
    <3> QED BY <1>0, <2>1, <3>1 DEF dial, ServerTypeOK
  <2> QED BY <2>3, <2>4, <2>5 DEF TypeOK
<1>2. CASE \E side \in Sides : peer_step(c, side)
  <2>1. PICK side \in Sides : peer_step(c, side)
    BY <1>2
  <2>2. sent[c][side] \in 0..Bytes /\ (sent[c][side] < Bytes => sent[c][side] + 1 \in 0..Bytes)
    <3>1. sent[c][side] \in 0..Bytes
      BY <1>0 DEF TunnelTypeOK
    <3> QED BY <3>1, ConnsAssumption
  <2>3. UNCHANGED <<got, copying>>
    BY <2>1 DEF peer_step
  <2>4. CASE sent[c][side] < Bytes /\ sent' = [sent EXCEPT ![c][side] = @ + 1] /\ UNCHANGED half
    <3>1. sent' \in [Conns -> [Sides -> 0..Bytes]]
      BY <1>0, <2>2, <2>4, CellType DEF TunnelTypeOK
    <3> QED BY <1>0, <2>1, <2>3, <2>4, <3>1 DEF peer_step, server, handshake, TypeOK, TunnelTypeOK,
                                                ServerTypeOK, ConnTypeOK
  <2>5. ASSUME NEW how \in {"shut", "gone"}, half' = [half EXCEPT ![c][side] = how], UNCHANGED sent
        PROVE  TypeOK'
    <3>1. half' \in [Conns -> [Sides -> {"open", "shut", "gone"}]]
      BY <1>0, <2>5, CellType DEF TunnelTypeOK
    <3> QED BY <1>0, <2>1, <2>3, <2>5, <3>1 DEF peer_step, server, handshake, TypeOK, TunnelTypeOK,
                                                ServerTypeOK, ConnTypeOK
  <2> QED BY <2>1, <2>4, <2>5 DEF peer_step
<1>3. CASE handler_step(c) /\ ~release(c)
  <2>1. UNCHANGED <<kind, policy, rules, server, request, late>>
    BY <1>3, HandlerGoesOn
  <2>2. ServerTypeOK'
    BY <1>0, <2>1 DEF server, ServerTypeOK
  <2>3. ConnTypeOK'
    <3>1. last_error' \in [Conns -> {"not_found", "denied", "failed"}]
      <4>1. CASE connect(c)
        BY <1>0, <4>1 DEF connect, ConnTypeOK
      <4>2. CASE ~connect(c)
        <5>1. UNCHANGED last_error
          BY <1>3, <4>2 DEF handler_step, read, permits, connect_fails, establish, copy, pipe_ends, handshake
        <5> QED BY <1>0, <5>1 DEF ConnTypeOK
      <4> QED BY <4>1, <4>2
    <3>2. PICK to \in Handling : pc' = [pc EXCEPT ![c] = to] /\ pc[c] \in Handling
      BY <1>3, HandlerGoesOn
    <3> QED BY <1>0, <2>1, <3>1, <3>2 DEF ConnTypeOK, Handling
  <2>4. TunnelTypeOK'
    <3>1. CASE read(c) \/ permits(c) \/ connect(c) \/ connect_fails(c) \/ pipe_ends(c)
      <4>1. UNCHANGED tunnel
        BY <3>1 DEF read, permits, connect, connect_fails, pipe_ends
      <4> QED BY <1>0, <4>1 DEF tunnel, TunnelTypeOK
    <3>2. CASE establish(c)
      <4>1. request[c] \in Requests[kind][c]
        BY <1>0, <3>2 DEF establish, ConnTypeOK
      <4>2. request[c].early \in 0..Bytes /\ "client" \in Sides
        BY <1>0, <4>1, RequestsAssumption DEF Sides
      <4>3. /\ got' = got \/ got' = [got EXCEPT ![c]["client"] = request[c].early]
            /\ UNCHANGED <<sent, half, copying>>
        BY <3>2 DEF establish
      <4>4. got' \in [Conns -> [Sides -> 0..Bytes]]
        <5>1. got \in [Conns -> [Sides -> 0..Bytes]]
          BY <1>0 DEF TunnelTypeOK
        <5>2. [got EXCEPT ![c]["client"] = request[c].early] \in [Conns -> [Sides -> 0..Bytes]]
          BY <4>2, <5>1, CellType
        <5> QED BY <4>3, <5>1, <5>2
      <4> QED BY <1>0, <4>3, <4>4 DEF TunnelTypeOK
    <3>3. ASSUME NEW side \in Sides, copy(c, side) PROVE TunnelTypeOK'
      <4>1. got[c][side] \in 0..Bytes /\ sent[c][side] \in 0..Bytes
        BY <1>0 DEF TunnelTypeOK
      <4>2. got[c][side] < sent[c][side] => got[c][side] + 1 \in 0..Bytes
        BY <4>1, ConnsAssumption, SMTT(30)
      <4>3. CASE got[c][side] < sent[c][side] /\ got' = [got EXCEPT ![c][side] = @ + 1] /\ UNCHANGED copying
        <5>1. got' \in [Conns -> [Sides -> 0..Bytes]]
          BY <1>0, <4>2, <4>3, CellType DEF TunnelTypeOK
        <5> QED BY <1>0, <3>3, <4>3, <5>1 DEF copy, TunnelTypeOK
      <4>4. CASE copying' = [copying EXCEPT ![c][side] = FALSE] /\ UNCHANGED got
        <5>1. copying' \in [Conns -> [Sides -> BOOLEAN]]
          BY <1>0, <4>4, CellType DEF TunnelTypeOK
        <5> QED BY <1>0, <3>3, <4>4, <5>1 DEF copy, TunnelTypeOK
      <4> QED BY <3>3, <4>3, <4>4 DEF copy
    <3> QED BY <1>3, <3>1, <3>2, <3>3 DEF handler_step
  <2> QED BY <2>2, <2>3, <2>4 DEF TypeOK
<1>4. CASE release(c)
  <2>1. TunnelTypeOK'
    <3>1. 0 \in 0..Bytes
      BY ConnsAssumption
    <3> QED BY <1>0, <1>4, <3>1, RowType DEF release, TunnelTypeOK
  <2>2. ServerTypeOK'
    BY <1>0, <1>4 DEF release, ServerTypeOK
  <2>3. ConnTypeOK'
    BY <1>0, <1>4 DEF release, goto, ConnTypeOK
  <2> QED BY <2>1, <2>2, <2>3 DEF TypeOK
<1> QED BY <1>1, <1>2, <1>3, <1>4

\* A step that leaves the loop and every queued connection keeps the queue.
LEMMA QueueKept ==
  ASSUME BaseInv, UNCHANGED <<owner, loop, stop, backlog, current>>,
         \A b \in Conns : pc[b] = "queued" => pc'[b] = "queued"
  PROVE  QueueInv'
<1>1. \A i \in 1..Len(backlog) : backlog[i] \in Conns \cup {Wake}
  BY DEF BaseInv, TypeOK, ServerTypeOK
<1> QED BY <1>1 DEF BaseInv, TypeOK, ServerTypeOK, QueueInv

\* The server's own steps keep the queue.
LEMMA QueueServer ==
  ASSUME BaseInv, server_step \/ accept_fails \/ set_stop \/ wake \/ join
  PROVE  QueueInv'
<1>0. ServerTypeOK /\ ConnTypeOK /\ TypeOK /\ QueueInv
  BY DEF BaseInv, TypeOK
<1>1. CASE check_stop \/ set_stop \/ join
  BY <1>0, <1>1 DEF check_stop, set_stop, join, QueueInv, Taken
<1>2. CASE wake
  <2>1. CASE UNCHANGED backlog
    BY <1>0, <1>2, <2>1 DEF wake, QueueInv
  <2>2. CASE backlog' = Append(backlog, Wake)
    <3>1. stop /\ UNCHANGED <<loop, stop, current, pc>>
      BY <1>0, <1>2 DEF wake, QueueInv
    <3>2. /\ Len(backlog') = Len(backlog) + 1 /\ Len(backlog) \in Nat
          /\ \A i \in 1..Len(backlog') : backlog'[i] = IF i = Len(backlog) + 1 THEN Wake ELSE backlog[i]
      BY <1>0, <2>2 DEF ServerTypeOK
    <3> QED BY <1>0, <3>1, <3>2 DEF QueueInv
  <2> QED BY <1>2, <2>1, <2>2 DEF wake
<1>3. CASE accept \/ accept_fails
  <2>1. CASE UNCHANGED <<backlog, pc>> /\ loop' = "ended"
    BY <1>0, <1>3, <2>1 DEF accept, accept_fails, QueueInv, Taken
  <2>2. CASE backlog # <<>> /\ backlog' = Tail(backlog)
    <3>1. /\ Head(backlog) = backlog[1] /\ Len(backlog) \in Nat /\ Len(backlog') = Len(backlog) - 1
          /\ \A i \in 1..Len(backlog') : backlog'[i] = backlog[i + 1]
          /\ 1 \in 1..Len(backlog) /\ backlog[1] \in Conns \cup {Wake}
      BY <1>0, <2>2 DEF ServerTypeOK
    <3>2. /\ \A i, j \in 1..Len(backlog') : backlog'[i] = backlog'[j] => i = j \/ backlog'[i] = Wake
          /\ \A i \in 1..Len(backlog') : IF backlog'[i] = Wake THEN stop ELSE pc[backlog'[i]] = "queued"
          /\ \A i \in 1..Len(backlog') : backlog'[i] # Wake => backlog'[i] # backlog[1]
          /\ IF backlog[1] = Wake THEN stop ELSE pc[backlog[1]] = "queued"
      <4>1. \A i \in 1..Len(backlog') : i + 1 \in 1..Len(backlog) /\ i + 1 # 1
        BY <3>1
      <4>2. /\ \A i, j \in 1..Len(backlog) : backlog[i] = backlog[j] => i = j \/ backlog[i] = Wake
            /\ \A i \in 1..Len(backlog) : IF backlog[i] = Wake THEN stop ELSE pc[backlog[i]] = "queued"
        BY <1>0 DEF QueueInv
      <4>3. ASSUME NEW i \in 1..Len(backlog'), NEW j \in 1..Len(backlog'), backlog'[i] = backlog'[j]
            PROVE  i = j \/ backlog'[i] = Wake
        <5>1. backlog[i + 1] = backlog[j + 1] /\ i + 1 \in 1..Len(backlog) /\ j + 1 \in 1..Len(backlog)
          BY <3>1, <4>1, <4>3
        <5>2. i + 1 = j + 1 \/ backlog[i + 1] = Wake
          BY <4>2, <5>1
        <5> QED BY <3>1, <5>2
      <4>4. ASSUME NEW i \in 1..Len(backlog')
            PROVE  /\ IF backlog'[i] = Wake THEN stop ELSE pc[backlog'[i]] = "queued"
                   /\ backlog'[i] # Wake => backlog'[i] # backlog[1]
        <5>1. backlog'[i] = backlog[i + 1] /\ i + 1 \in 1..Len(backlog) /\ i + 1 # 1
          BY <3>1, <4>1
        <5> QED BY <3>1, <4>2, <5>1
      <4> QED BY <3>1, <4>2, <4>3, <4>4
    <3>3. CASE accept
      <4>1. current' = backlog[1] /\ loop' = "recheck" /\ UNCHANGED <<owner, stop, pc>>
        BY <3>1, <3>3 DEF accept
      <4> QED BY <1>0, <3>1, <3>2, <4>1, NamesApart DEF QueueInv, Taken
    <3>4. CASE accept_fails /\ loop' = "check"
      <4>1. /\ \A b \in Conns : b # backlog[1] => pc'[b] = pc[b]
            /\ UNCHANGED <<owner, stop>>
        BY <1>0, <3>1, <3>4 DEF accept_fails, ConnTypeOK
      <4>2. \A i \in 1..Len(backlog') : backlog'[i] # Wake => backlog'[i] \in Conns
        <5>1. \A i \in 1..Len(backlog') : i + 1 \in 1..Len(backlog)
          BY <3>1
        <5>2. \A i \in 1..Len(backlog) : backlog[i] \in Conns \cup {Wake}
          BY <1>0 DEF ServerTypeOK
        <5> QED BY <3>1, <5>1, <5>2
      <4> QED BY <1>0, <3>2, <3>4, <4>1, <4>2 DEF QueueInv, Taken
    <3>5. CASE accept_fails /\ loop' = "ended"
      BY <1>0, <2>1, <3>5 DEF accept_fails
    <3> QED BY <1>3, <3>3, <3>4, <3>5 DEF accept_fails
  <2> QED BY <1>3, <2>1, <2>2 DEF accept, accept_fails
<1>4. CASE recheck \/ undo \/ claim
  <2>1. UNCHANGED <<owner, stop, backlog, current>>
    BY <1>4 DEF recheck, undo, claim
  <2>2. CASE loop' \in Taken
    <3>1. \/ loop' = "claim" /\ loop = "recheck" /\ ~stop /\ UNCHANGED pc
          \/ loop' = "undo" /\ loop = "claim" /\ UNCHANGED pc
      BY <1>4, <2>2 DEF recheck, undo, claim, Taken
    <3> QED BY <1>0, <2>1, <3>1 DEF QueueInv, Taken
  <2>3. CASE loop' \notin Taken
    <3>1. \A b \in Conns : b # current => pc'[b] = pc[b]
      BY <1>0, <1>4 DEF recheck, undo, claim, goto, ConnTypeOK
    <3>2. \A i \in 1..Len(backlog) : backlog[i] # Wake => backlog[i] \in Conns /\ backlog[i] # current
      BY <1>0, <1>4 DEF recheck, undo, claim, ServerTypeOK, QueueInv, Taken
    <3> QED BY <1>0, <2>1, <2>3, <3>1, <3>2 DEF QueueInv
  <2> QED BY <2>2, <2>3
<1> QED BY <1>1, <1>2, <1>3, <1>4 DEF server_step

\* The steps of the clients, of their peers and of the handlers keep the queue.
LEMMA QueueConn ==
  ASSUME BaseInv, NEW c \in Conns,
         \/ \E q \in Requests[kind][c] : dial(c, q)
         \/ \E side \in Sides : peer_step(c, side)
         \/ handler_step(c)
  PROVE  QueueInv'
<1>0. ServerTypeOK /\ ConnTypeOK /\ TypeOK /\ QueueInv
  BY DEF BaseInv, TypeOK
<1>1. CASE \E q \in Requests[kind][c] : dial(c, q)
  <2>1. /\ pc[c] = "off" /\ pc' = [pc EXCEPT ![c] = "queued"] /\ backlog' = Append(backlog, c)
        /\ UNCHANGED <<owner, loop, stop, current>>
    BY <1>1 DEF dial, goto
  <2>2. /\ Len(backlog') = Len(backlog) + 1 /\ Len(backlog) \in Nat
        /\ \A i \in 1..Len(backlog') : backlog'[i] = IF i = Len(backlog) + 1 THEN c ELSE backlog[i]
        /\ \A i \in 1..Len(backlog) : backlog[i] \in Conns \cup {Wake}
    BY <1>0, <2>1 DEF ServerTypeOK
  <2>3. \A i \in 1..Len(backlog) : backlog[i] # c
    BY <1>0, <2>1, NamesApart DEF QueueInv
  <2>4. /\ \A b \in Conns : b # c => pc'[b] = pc[b]
        /\ pc'[c] = "queued" /\ c # Wake
    BY <1>0, <2>1, NamesApart DEF ConnTypeOK
  <2>5. \A i \in 1..Len(backlog') : IF backlog'[i] = Wake THEN stop ELSE pc'[backlog'[i]] = "queued"
    BY <1>0, <2>2, <2>3, <2>4 DEF QueueInv
  <2>6. \A i, j \in 1..Len(backlog') : backlog'[i] = backlog'[j] => i = j \/ backlog'[i] = Wake
    BY <1>0, <2>2, <2>3 DEF QueueInv
  <2>7. ASSUME loop \in Taken
        PROVE  /\ current # Nobody
               /\ current = Wake => loop = "recheck" /\ stop
               /\ current # Wake => /\ pc'[current] = "queued"
                                   /\ \A i \in 1..Len(backlog') : backlog'[i] # current
    BY <1>0, <2>1, <2>2, <2>4, <2>7 DEF QueueInv, ServerTypeOK
  <2> QED BY <1>0, <2>1, <2>5, <2>6, <2>7 DEF QueueInv
<1>2. CASE (\E side \in Sides : peer_step(c, side)) \/ release(c)
  BY <1>0, <1>2, QueueKept DEF peer_step, release, goto, server, ConnTypeOK
<1>3. CASE handler_step(c) /\ ~release(c)
  <2>1. UNCHANGED <<owner, loop, stop, backlog, current>>
    BY <1>0, <1>3, HandlerGoesOn DEF server
  <2>2. \A b \in Conns : pc[b] = "queued" => pc'[b] = "queued"
    BY <1>0, <1>3, HandlerGoesOn DEF Handling, ConnTypeOK
  <2> QED BY <2>1, <2>2, QueueKept
<1> QED BY <1>1, <1>2, <1>3

LEMMA BaseStep == BaseInv /\ [Next]_vars => BaseInv'
<1> SUFFICES ASSUME BaseInv, [Next]_vars PROVE BaseInv'
  OBVIOUS
<1>1. CASE UNCHANGED vars
  <2>1. QueueInv'
    BY <1>1, QueueKept DEF vars, server
  <2> QED BY <1>1, <2>1 DEF vars, server, handshake, tunnel, BaseInv, TypeOK, ServerTypeOK, ConnTypeOK, TunnelTypeOK
<1>2. CASE server_step \/ accept_fails \/ set_stop \/ wake \/ join
  BY <1>2, TypeServer, QueueServer DEF BaseInv
<1>3. ASSUME NEW c \in Conns,
             \/ \E q \in Requests[kind][c] : dial(c, q)
             \/ \E side \in Sides : peer_step(c, side)
             \/ handler_step(c)
      PROVE  BaseInv'
  BY <1>3, TypeConn, QueueConn DEF BaseInv
<1> QED BY <1>1, <1>2, <1>3 DEF Next, Over

\* Every state of a server is well typed, and every connection in one place.
THEOREM BaseCorrect == Spec => []BaseInv
BY BaseInit, BaseStep, PTL DEF Spec

-----------------------------------------------------------------------------
\* The slots. Between the count of a claim and its taking back a handler may
\* end, so the counter is compared with the handlers and not with the limit.

\* What a step does to the connections that are handled.
LEMMA SameHandlers ==
  ASSUME \A c \in Conns : pc'[c] \in Handling <=> pc[c] \in Handling
  PROVE  handlers' = handlers
BY HandlersAre DEF handlers, Handling

LEMMA HandlersFinite == IsFiniteSet(handlers) /\ Cardinality(handlers) \in Nat
<1>1. handlers \in SUBSET Conns
  BY DEF handlers
<1>2. IsFiniteSet(handlers)
  BY <1>1, ConnsAssumption, FS_Subset
<1> QED BY <1>2, FS_CardinalityType

LEMMA SlotsInit == Init => SlotsCounted
<1> SUFFICES ASSUME Init PROVE SlotsCounted
  OBVIOUS
<1>1. handlers = {}
  BY DEF Init, handlers
<1>2. live = 0 /\ loop = "check"
  BY DEF Init
<1> QED BY <1>1, <1>2, FS_EmptySet, ConnsAssumption DEF SlotsCounted

\* Every step keeps the count.
LEMMA SlotsStep == BaseInv /\ SlotsCounted /\ [Next]_vars => SlotsCounted'
<1> SUFFICES ASSUME BaseInv, SlotsCounted, [Next]_vars PROVE SlotsCounted'
  OBVIOUS
<1>0. ServerTypeOK /\ ConnTypeOK /\ TypeOK /\ QueueInv
  BY DEF BaseInv, TypeOK
<1>1. ASSUME \A c \in Conns : pc'[c] \in Handling <=> pc[c] \in Handling,
             live' = live, loop' = "undo" <=> loop = "undo"
      PROVE  SlotsCounted'
  BY <1>1, SameHandlers DEF SlotsCounted
<1>2. CASE UNCHANGED vars
  BY <1>1, <1>2 DEF vars, server
<1>3. CASE check_stop \/ accept \/ set_stop \/ wake \/ join
  BY <1>1, <1>3 DEF check_stop, accept, set_stop, wake, join
<1>4. CASE accept_fails \/ recheck
  <2>1. live' = live /\ loop' # "undo" /\ loop # "undo"
    BY <1>4 DEF accept_fails, recheck
  <2>2. CASE UNCHANGED pc
    BY <1>1, <2>1, <2>2
  <2>3. CASE accept_fails /\ ~UNCHANGED pc
    <3>1. backlog # <<>> /\ Head(backlog) # Wake /\ pc' = [pc EXCEPT ![Head(backlog)] = "over"]
      BY <2>3 DEF accept_fails
    <3>2. Head(backlog) = backlog[1] /\ 1 \in 1..Len(backlog)
      BY <1>0, <3>1 DEF ServerTypeOK
    <3>3. pc[Head(backlog)] = "queued"
      BY <1>0, <3>1, <3>2 DEF QueueInv
    <3>4. \A c \in Conns : pc'[c] \in Handling <=> pc[c] \in Handling
      BY <1>0, <3>1, <3>3 DEF ConnTypeOK, Handling
    <3> QED BY <1>1, <2>1, <3>4
  <2>4. CASE recheck /\ ~UNCHANGED pc
    <3>1. loop \in Taken /\ current # Wake /\ pc' = [pc EXCEPT ![current] = "over"]
      BY <2>4 DEF recheck, Taken
    <3>2. \A c \in Conns : pc'[c] \in Handling <=> pc[c] \in Handling
      BY <1>0, <3>1 DEF QueueInv, ConnTypeOK, Handling
    <3> QED BY <1>1, <2>1, <3>2
  <2> QED BY <1>4, <2>2, <2>3, <2>4
<1>5. CASE claim
  <2>1. loop = "claim" /\ live' = live + 1 /\ current \in Conns /\ pc[current] = "queued"
    BY <1>0, <1>5 DEF claim, QueueInv, ServerTypeOK, Taken
  <2>2. CASE live < MAX_CONNECTIONS /\ loop' = "check"
    <3>1. handlers' = handlers \cup {current} /\ current \notin handlers
      <4>1. PICK to \in {"connect", "read"} : pc' = [pc EXCEPT ![current] = to]
        BY <1>5, <2>2 DEF claim, goto
      <4> QED BY <1>0, <2>1, <4>1 DEF handlers, ConnTypeOK
    <3>2. Cardinality(handlers') = Cardinality(handlers) + 1
      BY <3>1, HandlersFinite, FS_AddElement
    <3>3. live = Cardinality(handlers)
      BY <2>1, HandlersFinite DEF SlotsCounted
    <3> QED BY <2>1, <2>2, <3>2, <3>3, HandlersFinite, ConnsAssumption DEF SlotsCounted
  <2>3. CASE live >= MAX_CONNECTIONS /\ loop' = "undo" /\ UNCHANGED pc
    <3>1. handlers' = handlers
      BY <2>3, SameHandlers
    <3> QED BY <2>1, <2>3, <3>1, HandlersFinite DEF SlotsCounted
  <2> QED BY <1>5, <2>2, <2>3 DEF claim
<1>6. CASE undo
  <2>1. /\ loop = "undo" /\ loop' = "check" /\ live' = live - 1
        /\ pc[current] = "queued" /\ pc' = [pc EXCEPT ![current] = "over"]
    BY <1>0, <1>6 DEF undo, goto, QueueInv, Taken
  <2>2. handlers' = handlers
    <3>1. \A c \in Conns : pc'[c] \in Handling <=> pc[c] \in Handling
      BY <1>0, <2>1 DEF ConnTypeOK, Handling
    <3> QED BY <3>1, SameHandlers
  <2> QED BY <2>1, <2>2, HandlersFinite DEF SlotsCounted
<1>7. ASSUME NEW c \in Conns, (\E q \in Requests[kind][c] : dial(c, q)) \/ \E side \in Sides : peer_step(c, side)
      PROVE  SlotsCounted'
  <2>1. live' = live /\ loop' = loop
    BY <1>7 DEF dial, peer_step, server
  <2>2. \A b \in Conns : pc'[b] \in Handling <=> pc[b] \in Handling
    BY <1>0, <1>7 DEF dial, goto, peer_step, ConnTypeOK, Handling
  <2> QED BY <1>1, <2>1, <2>2
<1>8. ASSUME NEW c \in Conns, handler_step(c), ~release(c) PROVE SlotsCounted'
  <2>1. live' = live /\ loop' = loop
    BY <1>0, <1>8, HandlerGoesOn DEF server
  <2>2. \A b \in Conns : pc'[b] \in Handling <=> pc[b] \in Handling
    BY <1>0, <1>8, HandlerGoesOn DEF ConnTypeOK
  <2> QED BY <1>1, <2>1, <2>2
<1>9. ASSUME NEW c \in Conns, release(c) PROVE SlotsCounted'
  <2>1. live' = live - 1 /\ loop' = loop
    BY <1>9 DEF release
  <2>2. handlers' = handlers \ {c} /\ c \in handlers
    BY <1>0, <1>9 DEF release, goto, handlers, ConnTypeOK
  <2>3. Cardinality(handlers') = Cardinality(handlers) - 1
    BY <2>2, HandlersFinite, FS_RemoveElement
  <2> QED BY <2>1, <2>3, HandlersFinite, ConnsAssumption DEF SlotsCounted
<1> QED BY <1>2, <1>3, <1>4, <1>5, <1>6, <1>7, <1>8, <1>9 DEF Next, server_step, Over

\* ConnectionSlot: the counter is the number of handlers but for a claim that
\* is being taken back, and at most MAX_CONNECTIONS handlers run, for any
\* number of connections and whatever ends while the loop claims.
THEOREM SlotsCountedHolds == Spec => []SlotsCounted
BY BaseCorrect, SlotsInit, SlotsStep, PTL DEF Spec

-----------------------------------------------------------------------------
\* The stop. A connection made after the flag was set is looked at, if at all,
\* by a recheck that sees the flag.

StopInv ==
  /\ StopHeard
  /\ late # {} => stop
  /\ loop \in {"claim", "undo"} => current \notin late

LEMMA StopInit == Init => StopInv
BY DEF Init, StopInv, StopHeard

\* Every step keeps late connections out.
LEMMA StopStep == BaseInv /\ StopInv /\ [Next]_vars => StopInv'
<1> SUFFICES ASSUME BaseInv, StopInv, [Next]_vars PROVE StopInv'
  OBVIOUS
<1>0. ServerTypeOK /\ ConnTypeOK /\ TypeOK /\ QueueInv
  BY DEF BaseInv, TypeOK
<1>1. CASE UNCHANGED vars
  BY <1>1 DEF vars, server, StopInv, StopHeard
<1>2. CASE check_stop \/ accept \/ set_stop \/ wake \/ join
  BY <1>2 DEF check_stop, accept, set_stop, wake, join, StopInv, StopHeard
<1>3. CASE accept_fails \/ recheck \/ undo
  <2>1. /\ UNCHANGED <<stop, late, current>>
        /\ loop' \in {"claim", "undo"} => ~stop
    BY <1>3 DEF accept_fails, recheck, undo
  <2>2. \A c \in Conns : pc[c] \in {"queued", "over"} => pc'[c] \in {"queued", "over"}
    BY <1>0, <1>3 DEF accept_fails, recheck, undo, goto, ConnTypeOK
  <2>3. late \in SUBSET Conns
    BY <1>0 DEF ServerTypeOK
  <2> QED BY <2>1, <2>2, <2>3 DEF StopInv, StopHeard
<1>4. CASE claim
  <2>1. \A c \in Conns : c # current => pc'[c] = pc[c]
    BY <1>0, <1>4 DEF claim, goto, ConnTypeOK
  <2>2. late \in SUBSET Conns /\ current \notin late /\ UNCHANGED <<stop, late, current>>
    BY <1>0, <1>4 DEF ServerTypeOK, StopInv, claim
  <2> QED BY <2>1, <2>2 DEF StopInv, StopHeard
<1>5. ASSUME NEW c \in Conns, \E q \in Requests[kind][c] : dial(c, q) PROVE StopInv'
  <2>1. /\ pc[c] = "off" /\ pc' = [pc EXCEPT ![c] = "queued"] /\ late' = IF stop THEN late \cup {c} ELSE late
        /\ UNCHANGED <<loop, stop, current>>
    BY <1>5 DEF dial, goto
  <2>2. loop \in {"claim", "undo"} => current # c
    BY <1>0, <2>1 DEF QueueInv, ServerTypeOK, Taken
  <2>3. \A b \in Conns : pc[b] \in {"queued", "over"} \/ b = c => pc'[b] \in {"queued", "over"}
    BY <1>0, <2>1 DEF ConnTypeOK
  <2>4. late \in SUBSET Conns
    BY <1>0 DEF ServerTypeOK
  <2> QED BY <2>1, <2>2, <2>3, <2>4 DEF StopInv, StopHeard
<1>6. ASSUME NEW c \in Conns, (\E side \in Sides : peer_step(c, side)) \/ handler_step(c) PROVE StopInv'
  <2>1. UNCHANGED <<loop, stop, current, late>>
    BY <1>0, <1>6, HandlerGoesOn DEF peer_step, release, server
  <2>2. \A b \in Conns : pc[b] \in {"queued", "over"} => pc'[b] \in {"queued", "over"}
    <3>1. CASE release(c) \/ \E side \in Sides : peer_step(c, side)
      BY <1>0, <3>1 DEF peer_step, release, goto, ConnTypeOK
    <3>2. CASE handler_step(c) /\ ~release(c)
      BY <1>0, <3>2, HandlerGoesOn DEF ConnTypeOK, Handling
    <3> QED BY <1>6, <3>1, <3>2
  <2>3. late \in SUBSET Conns
    BY <1>0 DEF ServerTypeOK
  <2> QED BY <2>1, <2>2, <2>3 DEF StopInv, StopHeard
<1> QED BY <1>1, <1>2, <1>3, <1>4, <1>5, <1>6 DEF Next, server_step, Over

\* Drop for Server: a connection made after the stop flag was set is never
\* handled, for any number of connections, whether or not the wake succeeds.
THEOREM StopHeardHolds == Spec => []StopHeard
<1>1. StopInv => StopHeard
  BY DEF StopInv
<1> QED BY <1>1, BaseCorrect, StopInit, StopStep, PTL DEF Spec

-----------------------------------------------------------------------------
\* The tunnels. A copying thread ends when its side has shut down and every
\* byte is through, which then stays so, or when somebody has gone.

Gone(c) == "gone" \in {half[c]["client"], half[c]["upstream"]}
Through(c, side) == got[c][side] = sent[c][side] /\ half[c][side] # "open"

BytesInv ==
  /\ DOMAIN answer = Conns
  /\ \A c \in Conns :
       /\ pc[c] \in {"read", "permits"} => kind # "forward"
       /\ answer[c] = "established" => pc[c] \in {"pipe", "closing", "over"}
       /\ \A side \in Sides :
            /\ pc[c] \notin {"pipe", "closing"} => copying[c][side]
            /\ ~copying[c][side] => Through(c, side) \/ Gone(c)
            /\ pc[c] = "closing" /\ answer[c] = "established" => ~copying[c][side]

LEMMA BytesInit == Init => BytesInv
<1> SUFFICES ASSUME Init PROVE BytesInv
  OBVIOUS
<1>1. /\ pc = [c \in Conns |-> "off"] /\ answer = [c \in Conns |-> "none"]
      /\ copying = [c \in Conns |-> [side \in Sides |-> TRUE]]
  BY DEF Init, both
<1>2. \A c \in Conns, side \in Sides : copying[c][side] = TRUE
  BY <1>1
<1> QED BY <1>1, <1>2 DEF BytesInv

\* A refusal is no success.
LEMMA RefusalIs ==
  ASSUME kind \in {"http", "socks"}, NEW t \in DOMAIN Refusal[kind]
  PROVE  Refusal[kind][t] # "established"
BY DEF Refusal

\* A step of something else leaves a connection's tunnel.
LEMMA BytesKept ==
  ASSUME BytesInv, UNCHANGED <<kind, answer, tunnel>>,
         \A c \in Conns :
           \/ pc'[c] = pc[c]
           \/ /\ pc[c] \in {"off", "queued"}
              /\ pc'[c] \in {"queued", "over", "read", "connect"}
              /\ pc'[c] = "read" => kind # "forward"
  PROVE  BytesInv'
<1>1. UNCHANGED <<kind, answer, sent, got, half, copying>>
  BY DEF tunnel
<1>2. ASSUME NEW c \in Conns
      PROVE  /\ pc'[c] \in {"read", "permits"} => kind # "forward"
             /\ answer[c] = "established" => pc'[c] \in {"pipe", "closing", "over"}
             /\ pc'[c] \notin {"pipe", "closing"} => pc[c] \notin {"pipe", "closing"}
             /\ pc'[c] = "closing" => pc[c] = "closing"
  BY DEF BytesInv
<1>3. \A c \in Conns, side \in Sides : (Through(c, side) <=> Through(c, side)') /\ (Gone(c) <=> Gone(c)')
  BY <1>1 DEF Through, Gone
<1> QED BY <1>1, <1>2, <1>3 DEF BytesInv

\* The server's own steps leave the tunnels.
LEMMA BytesServer ==
  ASSUME BaseInv, BytesInv, server_step \/ accept_fails \/ set_stop \/ wake \/ join
  PROVE  BytesInv'
<1>0. ServerTypeOK /\ ConnTypeOK /\ QueueInv
  BY DEF BaseInv, TypeOK
<1>1. UNCHANGED <<kind, answer, tunnel>>
  BY DEF server_step, check_stop, accept, recheck, claim, undo, accept_fails, set_stop, wake, join, handshake
<1>2. CASE UNCHANGED pc
  BY <1>1, <1>2, BytesKept
<1>3. CASE accept_fails /\ ~UNCHANGED pc
  <2>1. backlog # <<>> /\ Head(backlog) # Wake /\ pc' = [pc EXCEPT ![Head(backlog)] = "over"]
    BY <1>3 DEF accept_fails
  <2>2. Head(backlog) = backlog[1] /\ 1 \in 1..Len(backlog)
    BY <1>0, <2>1 DEF ServerTypeOK
  <2>3. pc[Head(backlog)] = "queued"
    BY <1>0, <2>1, <2>2 DEF QueueInv
  <2> QED BY <1>0, <1>1, <2>1, <2>3, BytesKept DEF ConnTypeOK
<1>4. CASE (recheck \/ claim \/ undo) /\ ~UNCHANGED pc
  <2>1. loop \in Taken /\ current # Wake
    BY <1>0, <1>4 DEF recheck, claim, undo, Taken, QueueInv
  <2>2. \E to \in {"over", "read", "connect"} : pc' = [pc EXCEPT ![current] = to] /\ (to = "read" => kind # "forward")
    BY <1>4 DEF recheck, claim, undo, goto
  <2>3. pc[current] = "queued"
    BY <1>0, <2>1 DEF QueueInv
  <2> QED BY <1>0, <1>1, <2>2, <2>3, BytesKept DEF ConnTypeOK
<1> QED BY <1>2, <1>3, <1>4 DEF server_step, check_stop, accept, set_stop, wake, join

\* The steps of a connection leave the others, and its own tunnel whole.
LEMMA BytesConn ==
  ASSUME BaseInv, BytesInv, NEW c \in Conns,
         \/ \E q \in Requests[kind][c] : dial(c, q)
         \/ \E side \in Sides : peer_step(c, side)
         \/ handler_step(c)
  PROVE  BytesInv'
<1>0. ServerTypeOK /\ ConnTypeOK /\ TunnelTypeOK /\ "client" \in Sides /\ "upstream" \in Sides
  BY DEF BaseInv, TypeOK, Sides
<1>1. CASE \E q \in Requests[kind][c] : dial(c, q)
  <2>1. PICK q \in Requests[kind][c] : dial(c, q)
    BY <1>1
  <2>2. /\ pc[c] = "off" /\ pc' = [pc EXCEPT ![c] = "queued"]
        /\ sent' = [sent EXCEPT ![c]["client"] = q.early]
        /\ UNCHANGED <<kind, answer, got, half, copying>>
    BY <2>1 DEF dial, goto
  <2>3. \A b \in Conns : b # c => pc'[b] = pc[b] /\ sent'[b] = sent[b]
    BY <1>0, <2>2 DEF ConnTypeOK, TunnelTypeOK
  <2>4. pc'[c] = "queued"
    BY <1>0, <2>2 DEF ConnTypeOK
  <2> QED BY <2>2, <2>3, <2>4 DEF BytesInv, Through, Gone
<1>2. CASE \E side \in Sides : peer_step(c, side)
  <2>1. PICK side \in Sides : peer_step(c, side)
    BY <1>2
  <2>2. half[c][side] = "open" /\ UNCHANGED <<kind, pc, answer, got, copying>>
    BY <2>1 DEF peer_step, handshake
  <2>3. CASE sent' = [sent EXCEPT ![c][side] = @ + 1] /\ UNCHANGED half
    <3>1. \A b \in Conns, x \in Sides : b # c \/ x # side => sent'[b][x] = sent[b][x]
      BY <1>0, <2>3 DEF TunnelTypeOK
    <3>2. \A b \in Conns, x \in Sides : Through(b, x) => Through(b, x)'
      BY <2>2, <2>3, <3>1 DEF Through
    <3>3. \A b \in Conns : Gone(b) => Gone(b)'
      BY <2>3 DEF Gone
    <3> QED BY <2>2, <3>2, <3>3 DEF BytesInv
  <2>4. CASE UNCHANGED sent /\ \E how \in {"shut", "gone"} : half' = [half EXCEPT ![c][side] = how]
    <3>1. PICK how \in {"shut", "gone"} : half' = [half EXCEPT ![c][side] = how]
      BY <2>4
    <3>2. \A b \in Conns, x \in Sides : /\ b # c \/ x # side => half'[b][x] = half[b][x]
                                        /\ half[b][x] # "open" => half'[b][x] = half[b][x]
      BY <1>0, <2>2, <3>1 DEF TunnelTypeOK
    <3>3. \A b \in Conns, x \in Sides : Through(b, x) => Through(b, x)'
      BY <2>2, <2>4, <3>2 DEF Through
    <3>4. \A b \in Conns : Gone(b) => Gone(b)'
      BY <1>0, <3>2 DEF Gone
    <3> QED BY <2>2, <3>3, <3>4 DEF BytesInv
  <2> QED BY <2>1, <2>3, <2>4 DEF peer_step
<1>3. ASSUME NEW how, how # "established", refuse(c, how), UNCHANGED <<kind, tunnel>>,
             pc[c] \in {"read", "permits", "connect"}
      PROVE  BytesInv'
  <2>1. /\ answer'[c] = how /\ pc'[c] = "closing" /\ DOMAIN answer' = Conns
        /\ \A b \in Conns : b # c => answer'[b] = answer[b] /\ pc'[b] = pc[b]
    BY <1>0, <1>3 DEF refuse, goto, BytesInv, ConnTypeOK
  <2> QED BY <1>3, <2>1 DEF BytesInv, Through, Gone, tunnel
<1>4. ASSUME NEW to \in {"permits", "connect", "answer"}, UNCHANGED <<kind, answer, tunnel>>,
             pc[c] \in {"read", "permits", "connect"}, pc' = [pc EXCEPT ![c] = to],
             to = "permits" => pc[c] = "read"
      PROVE  BytesInv'
  <2>1. pc'[c] = to /\ \A b \in Conns : b # c => pc'[b] = pc[b]
    BY <1>0, <1>4 DEF ConnTypeOK
  <2> QED BY <1>4, <2>1 DEF BytesInv, Through, Gone, tunnel
<1>5. CASE read(c)
  <2>1. kind \in {"http", "socks"}
    BY <1>0, <1>5 DEF read, BytesInv, ServerTypeOK, Kinds
  <2>2. CASE request[c].step \in DOMAIN Refusal[kind] /\ refuse(c, Refusal[kind][request[c].step])
    <3>1. Refusal[kind][request[c].step] # "established"
      BY <2>1, <2>2, RefusalIs
    <3> QED BY <1>3, <1>5, <2>2, <3>1 DEF read
  <2> QED BY <1>4, <1>5, <2>2 DEF read, goto
<1>6. CASE permits(c)
  BY <1>3, <1>4, <1>6 DEF permits, goto
<1>7. CASE connect(c)
  <2>1. CASE UNCHANGED pc
    BY <1>7, <2>1, BytesKept DEF connect
  <2> QED BY <1>4, <1>7, <2>1 DEF connect, goto
<1>8. CASE connect_fails(c)
  <2>1. failure(c) # "established"
    BY DEF failure
  <2> QED BY <1>3, <1>8, <2>1 DEF connect_fails
<1>9. CASE establish(c)
  <2>1. /\ pc[c] = "answer" /\ UNCHANGED <<kind, sent, half, copying>>
        /\ \A side \in Sides : copying[c][side]
        /\ answer[c] # "established"
    BY <1>9 DEF establish, BytesInv
  <2>2. \A b \in Conns, x \in Sides : b # c => got'[b][x] = got[b][x]
    BY <1>0, <1>9 DEF establish, TunnelTypeOK
  <2>3. CASE answer' = [answer EXCEPT ![c] = "established"] /\ goto(c, "pipe")
    <3>1. /\ answer'[c] = "established" /\ pc'[c] = "pipe" /\ DOMAIN answer' = Conns
          /\ \A b \in Conns : b # c => answer'[b] = answer[b] /\ pc'[b] = pc[b]
      BY <1>0, <2>3 DEF goto, BytesInv, ConnTypeOK
    <3> QED BY <2>1, <2>2, <3>1 DEF BytesInv, Through, Gone
  <2>4. CASE UNCHANGED answer /\ goto(c, "closing")
    <3>1. pc'[c] = "closing" /\ \A b \in Conns : b # c => pc'[b] = pc[b]
      BY <1>0, <2>4 DEF goto, ConnTypeOK
    <3> QED BY <2>1, <2>2, <2>4, <3>1 DEF BytesInv, Through, Gone
  <2>5. CASE refuse(c, "dropped")
    <3>1. /\ answer'[c] # "established" /\ pc'[c] = "closing" /\ DOMAIN answer' = Conns
          /\ \A b \in Conns : b # c => answer'[b] = answer[b] /\ pc'[b] = pc[b]
      BY <1>0, <2>5 DEF refuse, goto, BytesInv, ConnTypeOK
    <3> QED BY <2>1, <2>2, <3>1 DEF BytesInv, Through, Gone
  <2> QED BY <1>9, <2>3, <2>4, <2>5 DEF establish
<1>10. ASSUME NEW side \in Sides, copy(c, side) PROVE BytesInv'
  <2>1. pc[c] = "pipe" /\ copying[c][side] /\ UNCHANGED <<kind, pc, answer, sent, half>>
    BY <1>10 DEF copy, handshake
  <2>2. CASE got' = [got EXCEPT ![c][side] = @ + 1] /\ UNCHANGED copying
    <3>1. \A b \in Conns, x \in Sides : b # c \/ x # side => got'[b][x] = got[b][x]
      BY <1>0, <2>2 DEF TunnelTypeOK
    <3> QED BY <2>1, <2>2, <3>1 DEF BytesInv, Through, Gone
  <2>3. CASE copying' = [copying EXCEPT ![c][side] = FALSE] /\ UNCHANGED got
    <3>1. \A b \in Conns, x \in Sides : b # c \/ x # side => copying'[b][x] = copying[b][x]
      BY <1>0, <2>3 DEF TunnelTypeOK
    <3>2. Through(c, side) \/ Gone(c)
      <4>1. CASE got[c][side] = sent[c][side] /\ half[c][side] # "open"
        BY <4>1 DEF Through
      <4>2. CASE half[c][side] = "gone" \/ half[c][other(side)] = "gone"
        BY <4>2 DEF Gone, Sides, other
      <4>3. got'[c][side] = got[c][side] /\ copying'[c][side] = FALSE
        BY <1>0, <2>3 DEF TunnelTypeOK
      <4> QED BY <1>10, <2>1, <4>1, <4>2, <4>3 DEF copy
    <3>3. \A b \in Conns, x \in Sides : (Through(b, x) => Through(b, x)') /\ (Gone(b) => Gone(b)')
      BY <2>1, <2>3 DEF Through, Gone
    <3> QED BY <2>1, <3>1, <3>2, <3>3 DEF BytesInv
  <2> QED BY <1>10, <2>2, <2>3 DEF copy
<1>11. CASE pipe_ends(c)
  <2>1. /\ \A side \in Sides : ~copying[c][side]
        /\ UNCHANGED <<kind, answer, tunnel>> /\ pc[c] = "pipe"
    BY <1>11 DEF pipe_ends, handshake
  <2>2. pc'[c] = "closing" /\ \A b \in Conns : b # c => pc'[b] = pc[b]
    BY <1>0, <1>11 DEF pipe_ends, goto, ConnTypeOK
  <2> QED BY <2>1, <2>2 DEF BytesInv, Through, Gone, tunnel
<1>12. CASE release(c)
  <2>1. pc'[c] = "over" /\ \A b \in Conns : b # c => pc'[b] = pc[b]
    BY <1>0, <1>12 DEF release, goto, ConnTypeOK
  <2>2. /\ \A x \in Sides : copying'[c][x]
        /\ \A b \in Conns : b # c => /\ sent'[b] = sent[b] /\ got'[b] = got[b]
                                     /\ half'[b] = half[b] /\ copying'[b] = copying[b]
        /\ UNCHANGED <<kind, answer>>
    BY <1>0, <1>12 DEF release, TunnelTypeOK
  <2> QED BY <2>1, <2>2 DEF BytesInv, Through, Gone
<1> QED BY <1>1, <1>2, <1>5, <1>6, <1>7, <1>8, <1>9, <1>10, <1>11, <1>12 DEF handler_step

\* Every step keeps the tunnels whole.
LEMMA BytesStep == BaseInv /\ BytesInv /\ [Next]_vars => BytesInv'
<1> SUFFICES ASSUME BaseInv, BytesInv, [Next]_vars PROVE BytesInv'
  OBVIOUS
<1>1. CASE UNCHANGED vars
  BY <1>1, BytesKept DEF vars, handshake
<1> QED BY <1>1, BytesServer, BytesConn DEF Next, Over

\* pipe and serve_http: a tunnel ends only when both copies have, and a peer
\* that stays gets every byte that its peer wrote before shutting down.
THEOREM BytesArriveHolds == Spec => []BytesArrive
<1>1. BytesInv => BytesArrive
  BY DEF BytesInv, BytesArrive, Through, Gone
<1> QED BY <1>1, BaseCorrect, BytesInit, BytesStep, PTL DEF Spec

-----------------------------------------------------------------------------
\* Domain rules: what a rule matches is what its text means.

\* A nonempty set of numbers with an upper bound has a greatest one.
LEMMA GreatestNat ==
  ASSUME NEW n \in Nat, NEW S \in SUBSET (1..n), S # {}
  PROVE  Max(S) \in S
<1> DEFINE T == {n - i : i \in S}
<1>1. T \in SUBSET Nat /\ T # {}
  <2>1. \A i \in S : n - i \in Nat
    OBVIOUS
  <2> QED BY <2>1
<1>2. PICK u \in T : \A v \in T : ~ (<<v, u>> \in OpToRel(<, Nat))
  BY <1>1, NatLessThanWellFounded, WFMin, Zenon
<1>3. \A v \in T : u <= v
  <2>1. u \in Nat /\ \A v \in T : v \in Nat
    BY <1>1
  <2>2. \A v \in T : ~ (v < u)
    <3> HIDE DEF T
    <3> QED BY <1>2, <2>1 DEF OpToRel
  <2> QED BY <2>1, <2>2
<1>4. PICK i \in S : u = n - i
  OBVIOUS
<1>5. \A j \in S : n - j \in T
  OBVIOUS
<1>6. \A j \in S : i >= j
  BY <1>3, <1>4, <1>5
<1> QED BY <1>6 DEF Max

\* Trailing dots off: a prefix of the labels.
LEMMA WithoutDots ==
  ASSUME NEW h \in Seq(STRING)
  PROVE  /\ without_dots(h) \in Seq(STRING)
         /\ \A i \in DOMAIN without_dots(h) : without_dots(h)[i] = h[i] /\ i \in 1..Len(h)
<1> DEFINE I == {i \in 1..Len(h) : h[i] # ""}
           last == IF I # {} THEN Max(I) ELSE 0
<1>0. Len(h) \in Nat
  OBVIOUS
<1>1. last \in 0..Len(h)
  <2>1. CASE I = {}
    <3>1. last = 0
      BY <2>1
    <3>2. 0 \in 0..Len(h)
      BY <1>0
    <3> HIDE DEF last
    <3> QED BY <3>1, <3>2
  <2>2. CASE I # {}
    <3>1. I \in SUBSET (1..Len(h))
      BY Zenon
    <3> HIDE DEF I
    <3>2. Max(I) \in I
      BY <1>0, <2>2, <3>1, GreatestNat
    <3>3. Max(I) \in 1..Len(h) /\ last = Max(I)
      BY <2>2, <3>1, <3>2
    <3> QED BY <1>0, <3>3
  <2> QED BY <2>1, <2>2
<1>2. without_dots(h) = SubSeq(h, 1, last)
  BY DEF without_dots, SelectLastInSeq
<1> HIDE DEF last
<1> QED BY <1>1, <1>2

\* Labels are strings; that the lower case of one is a string is no fact of
\* the provers, so it is said here.
Labels == STRING \cup {"hub"}

\* A host as it is compared.
LEMMA PlainIs ==
  ASSUME NEW h \in Seq(STRING)
  PROVE  /\ Plain(h) \in Seq(Labels)
         /\ Plain(h) = [i \in DOMAIN without_dots(h) |-> lower(without_dots(h)[i])]
<1>1. /\ without_dots(h) \in Seq(STRING)
      /\ \A i \in DOMAIN without_dots(h) : without_dots(h)[i] = h[i]
  BY WithoutDots
<1>2. Plain(h) = [i \in DOMAIN without_dots(h) |-> lower(without_dots(h)[i])]
  BY <1>1 DEF Plain
<1>3. ASSUME NEW w \in Seq(STRING) PROVE [i \in DOMAIN w |-> lower(w[i])] \in Seq(Labels)
  <2>1. \A i \in 1..Len(w) : lower(w[i]) \in Labels
    <3>1. \A label \in STRING : lower(label) \in Labels
      BY Zenon DEF lower, Labels
    <3>2. \A i \in 1..Len(w) : w[i] \in STRING
      OBVIOUS
    <3> QED BY <3>1, <3>2
  <2>2. DOMAIN w = 1..Len(w) /\ Len(w) \in Nat
    OBVIOUS
  <2> QED BY <2>1, <2>2
<1> QED BY <1>1, <1>2, <1>3

\* A suffix with something before it.
LEMMA SuffixSplits ==
  ASSUME NEW r \in Seq(Labels), NEW t \in Seq(Labels)
  PROVE  (/\ IsSuffix(r, t) /\ Len(t) > Len(r)
          /\ SubSeq(t, 1, Len(t) - Len(r)) # <<"">>)
           <=> \E name \in {SubSeq(t, 1, n) : n \in 1..Len(t)} : name # <<"">> /\ t = name \o r
<1>0. Len(r) \in Nat /\ Len(t) \in Nat
  OBVIOUS
<1>1. Len(r) <= Len(t) => (IsSuffix(r, t) <=> \A j \in 1..Len(r) : r[j] = t[Len(t) - Len(r) + j])
  <2> SUFFICES ASSUME Len(r) <= Len(t)
               PROVE  IsSuffix(r, t) <=> \A j \in 1..Len(r) : r[j] = t[Len(t) - Len(r) + j]
    OBVIOUS
  <2>1. /\ Reverse(r) \in Seq(Labels) /\ Len(Reverse(r)) = Len(r)
        /\ Reverse(t) \in Seq(Labels) /\ Len(Reverse(t)) = Len(t)
    BY <1>0 DEF Reverse
  <2>2. /\ \A i \in 1..Len(r) : Reverse(r)[i] = r[Len(r) - i + 1]
        /\ \A i \in 1..Len(t) : Reverse(t)[i] = t[Len(t) - i + 1]
    BY <1>0 DEF Reverse
  <2>3. IsSuffix(r, t) <=> \A i \in 1..Len(r) : Reverse(r)[i] = Reverse(t)[i]
    <3> DEFINE a == SubSeq(Reverse(r), 1, Len(r))
               b == SubSeq(Reverse(t), 1, Len(r))
    <3>1. /\ a \in Seq(Labels) /\ b \in Seq(Labels) /\ Len(a) = Len(r) /\ Len(b) = Len(r)
          /\ \A i \in 1..Len(r) : a[i] = Reverse(r)[i] /\ b[i] = Reverse(t)[i]
      BY <1>0, <2>1
    <3>2. IsSuffix(r, t) <=> a = b
      BY <1>0, <2>1 DEF IsSuffix, IsPrefix
    <3> HIDE DEF a, b
    <3>3. a = b <=> \A i \in 1..Len(r) : a[i] = b[i]
      BY <1>0, <3>1
    <3> QED BY <3>1, <3>2, <3>3
  <2>4. ASSUME \A i \in 1..Len(r) : Reverse(r)[i] = Reverse(t)[i], NEW j \in 1..Len(r)
        PROVE  r[j] = t[Len(t) - Len(r) + j]
    <3> DEFINE i == Len(r) - j + 1
    <3>1. /\ i \in 1..Len(r) /\ i \in 1..Len(t) /\ Len(r) - i + 1 = j
          /\ Len(t) - i + 1 = Len(t) - Len(r) + j
      BY <1>0
    <3> HIDE DEF i
    <3> QED BY <2>2, <2>4, <3>1
  <2>5. ASSUME \A j \in 1..Len(r) : r[j] = t[Len(t) - Len(r) + j], NEW i \in 1..Len(r)
        PROVE  Reverse(r)[i] = Reverse(t)[i]
    <3> DEFINE j == Len(r) - i + 1
    <3>1. j \in 1..Len(r) /\ i \in 1..Len(t) /\ Len(t) - Len(r) + j = Len(t) - i + 1
      BY <1>0
    <3>2. r[j] = t[Len(t) - i + 1]
      BY <2>5, <3>1
    <3> QED BY <2>2, <3>1, <3>2
  <2> QED BY <2>3, <2>4, <2>5
<1>2. ASSUME NEW n \in 1..Len(t), Len(r) <= Len(t), n = Len(t) - Len(r)
      PROVE  t = SubSeq(t, 1, n) \o r <=> \A j \in 1..Len(r) : r[j] = t[Len(t) - Len(r) + j]
  <2> DEFINE u == SubSeq(t, 1, n) \o r
  <2>1. u \in Seq(Labels) /\ Len(u) = Len(t)
    BY <1>0, <1>2
  <2>2. \A i \in 1..Len(t) : u[i] = IF i <= n THEN t[i] ELSE r[i - n]
    BY <1>0, <1>2
  <2> HIDE DEF u
  <2>3. t = u <=> \A i \in 1..Len(t) : t[i] = u[i]
    BY <1>0, <2>1
  <2>4. \A j \in 1..Len(r) : n + j \in 1..Len(t) /\ ~(n + j <= n) /\ (n + j) - n = j
    BY <1>0, <1>2
  <2>5. \A i \in 1..Len(t) : ~(i <= n) => i - n \in 1..Len(r) /\ n + (i - n) = i
    BY <1>0, <1>2
  <2>6. (\A i \in 1..Len(t) : t[i] = u[i]) => \A j \in 1..Len(r) : r[j] = t[n + j]
    BY <2>2, <2>4
  <2>7. (\A j \in 1..Len(r) : r[j] = t[n + j]) => \A i \in 1..Len(t) : t[i] = u[i]
    BY <2>2, <2>5
  <2> QED BY <1>2, <2>3, <2>6, <2>7 DEF u
<1>3. ASSUME IsSuffix(r, t), Len(t) > Len(r), SubSeq(t, 1, Len(t) - Len(r)) # <<"">>
      PROVE  \E name \in {SubSeq(t, 1, n) : n \in 1..Len(t)} : name # <<"">> /\ t = name \o r
  <2> DEFINE n == Len(t) - Len(r)
  <2>0. Len(t) > Len(r)
    BY <1>3
  <2>1. n \in 1..Len(t) /\ Len(r) <= Len(t)
    BY <1>0, <2>0
  <2>2. t = SubSeq(t, 1, n) \o r
    BY <1>1, <1>2, <1>3, <2>1
  <2> QED BY <1>3, <2>1, <2>2
<1>4. ASSUME NEW n \in 1..Len(t), SubSeq(t, 1, n) # <<"">>, t = SubSeq(t, 1, n) \o r
      PROVE  IsSuffix(r, t) /\ Len(t) > Len(r) /\ SubSeq(t, 1, Len(t) - Len(r)) # <<"">>
  <2>1. SubSeq(t, 1, n) \in Seq(Labels) /\ Len(SubSeq(t, 1, n)) = n
    BY <1>0
  <2>2. Len(SubSeq(t, 1, n) \o r) = n + Len(r)
    BY <2>1
  <2>3. Len(t) = n + Len(r)
    BY <1>4, <2>2
  <2>4. n = Len(t) - Len(r) /\ Len(r) <= Len(t) /\ Len(t) > Len(r)
    BY <1>0, <2>3
  <2> QED BY <1>1, <1>2, <1>4, <2>4
<1> QED BY <1>3, <1>4

\* The tail of a host is one.
LEMMA TailIsHost ==
  ASSUME NEW h \in Seq(STRING), Len(h) > 1
  PROVE  Tail(h) \in Seq(STRING)
<1>1. h # <<>>
  OBVIOUS
<1> QED BY <1>1

\* What from_str makes of a text: nothing, or the text's host as it is compared.
LEMMA FromStr ==
  ASSUME NEW text, text.host \in Seq(STRING)
  PROVE  LET wildcard == Len(text.host) > 1 /\ Head(text.host) = "*"
             X == IF wildcard THEN Tail(text.host) ELSE text.host
         IN  \/ from_str(text) = Rejected
             \/ /\ from_str(text) = [host |-> Plain(X), wildcard |-> wildcard,
                                     port |-> IF text.port = -1 THEN AnyPort ELSE text.port]
                /\ text.port # 0 /\ from_str(text) # Rejected
<1> DEFINE wildcard == Len(text.host) > 1 /\ Head(text.host) = "*"
           X == IF wildcard THEN Tail(text.host) ELSE text.host
           w == without_dots(X)
           port == IF text.port = -1 THEN AnyPort ELSE text.port
<1>1. X \in Seq(STRING)
  BY TailIsHost
<1>2. w \in Seq(STRING)
  BY <1>1, WithoutDots
<1>3. [i \in DOMAIN w |-> lower(w[i])] = Plain(X)
  BY <1>1, PlainIs
<1>4. CASE text.port \in {0, 65536} \/ w = <<>> \/ Range(w) \cap (Starred \cup Odd) # {}
  BY <1>4 DEF from_str
<1>5. CASE ~(text.port \in {0, 65536} \/ w = <<>> \/ Range(w) \cap (Starred \cup Odd) # {})
  <2>1. from_str(text) = [host |-> [i \in DOMAIN w |-> lower(w[i])], wildcard |-> wildcard, port |-> port]
    BY <1>5 DEF from_str
  <2>2. w # <<>> /\ text.port # 0
    BY <1>5
  <2>3. [i \in DOMAIN w |-> lower(w[i])] # <<>>
    <3>1. 1 \in DOMAIN w
      BY <1>2, <2>2
    <3> HIDE DEF w
    <3>2. DOMAIN [i \in DOMAIN w |-> lower(w[i])] = DOMAIN w
      OBVIOUS
    <3>3. DOMAIN <<>> = {}
      OBVIOUS
    <3> QED BY <3>1, <3>2, <3>3
  <2>4. from_str(text).host # <<>>
    BY <2>1, <2>3
  <2>5. from_str(text) # Rejected
    BY <2>4 DEF Rejected
  <2> QED BY <1>3, <2>1, <2>2, <2>5
<1> QED BY <1>4, <1>5

\* A rule matches the hosts that its text means, and no others.
LEMMA MatchesMeant ==
  ASSUME NEW text, text.host \in Seq(STRING), NEW host \in Seq(STRING), NEW port
  PROVE  /\ matches(from_str(text), host, port) => Meant(text, host, port)
         /\ from_str(text) # Rejected /\ Meant(text, host, port) => matches(from_str(text), host, port)
<1> DEFINE wildcard == Len(text.host) > 1 /\ Head(text.host) = "*"
           X == IF wildcard THEN Tail(text.host) ELSE text.host
           name == Plain(host)
           rule == from_str(text)
<1>1. CASE from_str(text) = Rejected
  BY <1>1 DEF matches
<1>2. CASE from_str(text) # Rejected
  <2>1. /\ rule.host = Plain(X) /\ rule.wildcard = wildcard
        /\ rule.port = IF text.port = -1 THEN AnyPort ELSE text.port
        /\ text.port # 0
    BY <1>2, FromStr
  <2>2. name \in Seq(Labels) /\ Plain(X) \in Seq(Labels)
    <3>1. X \in Seq(STRING)
      BY TailIsHost
    <3> HIDE DEF X
    <3> QED BY <3>1, PlainIs
  <2>3. matches(rule, host, port) <=>
          /\ rule.port \in {AnyPort, port}
          /\ IF rule.wildcard
             THEN /\ IsSuffix(rule.host, name) /\ Len(name) > Len(rule.host)
                  /\ SubSeq(name, 1, Len(name) - Len(rule.host)) # <<"">>
             ELSE name = rule.host
    BY <1>2 DEF matches, Plain
  <2>4. rule.port \in {AnyPort, port} <=> text.port \in {-1, port}
    BY <2>1 DEF AnyPort
  <2>5. CASE wildcard
    <3>1. X = Tail(text.host) /\ Head(text.host) = "*" /\ Len(text.host) > 1
      BY <2>5
    <3>2. Meant(text, host, port) <=>
            /\ text.port \in {-1, port}
            /\ \E n \in {SubSeq(name, 1, m) : m \in 1..Len(name)} : n # <<"">> /\ name = n \o Plain(X)
      BY <3>1 DEF Meant
    <3> HIDE DEF X, name, rule
    <3> QED BY <2>1, <2>2, <2>3, <2>4, <2>5, <3>2, SuffixSplits DEF rule
  <2>6. CASE ~wildcard
    <3>1. Meant(text, host, port) <=> text.port \in {-1, port} /\ name = Plain(X)
      BY <2>6 DEF Meant
    <3> QED BY <2>1, <2>3, <2>4, <2>6, <3>1
  <2> QED BY <2>5, <2>6
<1> QED BY <1>1, <1>2

-----------------------------------------------------------------------------
\* Policies: what a server may be given, and what it makes of it.

\* The merged section grants nothing but what the workflow, the task and the
\* profile grant between them, and all that the workflow names.
LEMMA Granted ==
  ASSUME NEW s \in Servers
  PROVE  LET network == merge(s.workflow, s.task) IN
         /\ allowed_domains(network, Profile) \subseteq Texts(s.workflow, s.task)
         /\ s.workflow.allow \cup UNION s.workflow.groups \subseteq allowed_domains(network, Profile)
         /\ policy = [workflow |-> s.workflow, task |-> s.task] =>
              /\ allowed_domains(network, Profile) \subseteq GrantedTexts
              /\ localhost(network) => LastWord("localhost", "yes")
<1> DEFINE network == merge(s.workflow, s.task)
<1>1. DOMAIN s.workflow = Fields
  BY ServersAssumption
<1>2. /\ network.groups = s.workflow.groups \cup s.task.groups
      /\ network.allow = s.workflow.allow \cup s.task.allow
      /\ network.disable = s.workflow.disable \cup s.task.disable
      /\ network.defaults = or(s.task.defaults, s.workflow.defaults)
      /\ network.localhost = or(s.task.localhost, s.workflow.localhost)
  BY <1>1 DEF merge, Fields, Settings
<1> HIDE DEF network
<1>3. ASSUME policy = [workflow |-> s.workflow, task |-> s.task]
      PROVE  /\ allowed_domains(network, Profile) \subseteq GrantedTexts
             /\ localhost(network) => LastWord("localhost", "yes")
  <2>1. policy.workflow = s.workflow /\ policy.task = s.task
    BY <1>3
  <2>2. localhost(network) => LastWord("localhost", "yes")
    BY <1>2, <2>1 DEF localhost, or, Unset, LastWord
  <2> DEFINE left == {group \in Profile.default_domain_groups :
                       ~LastWord("defaults", "no") /\ \A section \in {policy.workflow, policy.task} : group \notin section.disable}
  <2>3. or(network.defaults, "yes") = "yes" => ~LastWord("defaults", "no")
    BY <1>2, <2>1 DEF or, Unset, LastWord
  <2>4. selected(network, Profile.default_domain_groups) \subseteq left \cup s.workflow.groups \cup s.task.groups
    BY <1>2, <2>1, <2>3 DEF selected
  <2>5. GrantedTexts = (UNION {section.allow \cup UNION section.groups : section \in {s.workflow, s.task}})
                         \cup (UNION Profile.required_domain_groups) \cup UNION left
    BY <2>1 DEF GrantedTexts
  <2> HIDE DEF left
  <2>6. ASSUME NEW text \in allowed_domains(network, Profile) PROVE text \in GrantedTexts
    <3>1. CASE text \in s.workflow.allow \/ text \in s.task.allow
      BY <2>5, <3>1
    <3>2. CASE \E group \in s.workflow.groups \cup s.task.groups : text \in group
      BY <2>5, <3>2
    <3>3. CASE \E group \in left \cup Profile.required_domain_groups : text \in group
      BY <2>5, <3>3
    <3> QED BY <1>2, <2>4, <2>6, <3>1, <3>2, <3>3 DEF allowed_domains
  <2> QED BY <2>2, <2>6
<1>4. selected(network, Profile.default_domain_groups) \subseteq
        Profile.default_domain_groups \cup s.workflow.groups \cup s.task.groups
  BY <1>2 DEF selected
<1>5. s.workflow.groups \subseteq selected(network, Profile.default_domain_groups)
  BY <1>2 DEF selected
<1>6. allowed_domains(network, Profile) \subseteq Texts(s.workflow, s.task)
  BY <1>2, <1>4 DEF allowed_domains, Texts
<1>7. s.workflow.allow \cup UNION s.workflow.groups \subseteq allowed_domains(network, Profile)
  BY <1>2, <1>5 DEF allowed_domains
<1> QED BY <1>3, <1>6, <1>7 DEF network

Rule(network) ==
  [domains |-> {from_str(text) : text \in allowed_domains(network, Profile)}, localhost |-> localhost(network)]
Permitted(q) == \E rule \in rules.domains : matches(rule, q.host, port_of(q))
Denied(target) == \A rule \in rules.domains : ~matches(rule, target[1], target[2])

RulesInv ==
  /\ \E s \in Servers : /\ policy = [workflow |-> s.workflow, task |-> s.task]
                        /\ rules = Rule(merge(s.workflow, s.task))
  /\ DOMAIN upstream = Conns
  /\ \A c \in Conns :
       /\ pc[c] = "off" => upstream[c] = NoAddress /\ request[c] = [step |-> "none"]
       /\ pc[c] = "connect" /\ kind # "forward" => Permitted(request[c])
       /\ upstream[c] # NoAddress /\ kind # "forward" =>
            Permitted(request[c]) /\ (upstream[c].is_local => rules.localhost)
  /\ \A target \in reported : target[2] = Local \/ Denied(target)

LEMMA RulesInit == Init => RulesInv
<1> SUFFICES ASSUME Init PROVE RulesInv
  OBVIOUS
<1>1. PICK s \in Servers : policy = [workflow |-> s.workflow, task |-> s.task]
  BY DEF Init
<1>2. rules = Rule(merge(policy.workflow, policy.task))
  BY DEF Init, Rule
<1>3. policy.workflow = s.workflow /\ policy.task = s.task
  BY <1>1
<1>4. /\ upstream = [c \in Conns |-> NoAddress] /\ pc = [c \in Conns |-> "off"]
      /\ request = [c \in Conns |-> [step |-> "none"]] /\ reported = {}
  BY DEF Init
<1> QED BY <1>1, <1>2, <1>3, <1>4 DEF RulesInv

\* A step that lets nobody through, reports nothing and leaves the requests.
LEMMA RulesKept ==
  ASSUME RulesInv, UNCHANGED <<kind, policy, rules, request, upstream, reported>>,
         \A c \in Conns : /\ pc'[c] = "off" => pc[c] = "off"
                          /\ pc'[c] = "connect" => pc[c] = "connect" \/ kind = "forward" \/ Permitted(request[c])
  PROVE  RulesInv'
<1>1. \A target : Denied(target) <=> Denied(target)'
  BY DEF Denied
<1>2. \E s \in Servers : /\ policy' = [workflow |-> s.workflow, task |-> s.task]
                         /\ rules' = Rule(merge(s.workflow, s.task))
  BY DEF RulesInv
<1>3. ASSUME NEW c \in Conns
      PROVE  /\ pc'[c] = "off" => upstream[c] = NoAddress /\ request[c] = [step |-> "none"]
             /\ pc'[c] = "connect" /\ kind # "forward" => Permitted(request[c])
             /\ upstream[c] # NoAddress /\ kind # "forward" =>
                  Permitted(request[c]) /\ (upstream[c].is_local => rules.localhost)
  BY DEF RulesInv
<1>4. \A c \in Conns : Permitted(request[c])' <=> Permitted(request[c])
  BY DEF Permitted, port_of
<1>5. \A target \in reported : target[2] = Local \/ Denied(target)'
  BY <1>1 DEF RulesInv
<1> QED BY <1>2, <1>3, <1>4, <1>5 DEF RulesInv, Rule, Permitted

\* Every step lets through what the rules permit, and reports what they do not.
LEMMA RulesStep == BaseInv /\ RulesInv /\ [Next]_vars => RulesInv'
<1> SUFFICES ASSUME BaseInv, RulesInv, [Next]_vars PROVE RulesInv'
  OBVIOUS
<1>0. ServerTypeOK /\ ConnTypeOK /\ TypeOK /\ QueueInv
  BY DEF BaseInv, TypeOK
<1>1. CASE UNCHANGED vars
  BY <1>1, RulesKept DEF vars, handshake
<1>2. CASE server_step \/ accept_fails \/ set_stop \/ wake \/ join
  <2>1. UNCHANGED <<kind, policy, rules, request, upstream, reported>>
    BY <1>2 DEF server_step, check_stop, accept, recheck, claim, undo, accept_fails, set_stop, wake, join, handshake
  <2>2. \A c \in Conns : /\ pc'[c] = "off" => pc[c] = "off"
                         /\ pc'[c] = "connect" => pc[c] = "connect" \/ kind = "forward"
    BY <1>0, <1>2 DEF server_step, check_stop, accept, recheck, claim, undo, accept_fails, set_stop, wake, join,
                      goto, ConnTypeOK
  <2> QED BY <2>1, <2>2, RulesKept
<1>3. ASSUME NEW c \in Conns, NEW q \in Requests[kind][c], dial(c, q) PROVE RulesInv'
  <2>1. /\ pc[c] = "off" /\ pc' = [pc EXCEPT ![c] = "queued"] /\ request' = [request EXCEPT ![c] = q]
        /\ UNCHANGED <<kind, policy, rules, upstream, reported>>
    BY <1>3 DEF dial, goto
  <2>2. \A b \in Conns : b # c => pc'[b] = pc[b] /\ request'[b] = request[b]
    BY <1>0, <2>1 DEF ConnTypeOK
  <2>3. pc'[c] = "queued" /\ upstream'[c] = NoAddress
    BY <1>0, <2>1 DEF ConnTypeOK, RulesInv
  <2>4. \A b \in Conns : b # c => (Permitted(request[b])' <=> Permitted(request[b]))
    BY <2>1, <2>2 DEF Permitted, port_of
  <2>5. \A target \in reported : target[2] = Local \/ Denied(target)'
    BY <2>1 DEF RulesInv, Denied
  <2>6. \E s \in Servers : /\ policy' = [workflow |-> s.workflow, task |-> s.task]
                           /\ rules' = Rule(merge(s.workflow, s.task))
    BY <2>1 DEF RulesInv
  <2>7. ASSUME NEW b \in Conns
        PROVE  /\ pc'[b] = "off" => upstream'[b] = NoAddress /\ request'[b] = [step |-> "none"]
               /\ pc'[b] = "connect" /\ kind' # "forward" => Permitted(request[b])'
               /\ upstream'[b] # NoAddress /\ kind' # "forward" =>
                    Permitted(request[b])' /\ (upstream'[b].is_local => rules'.localhost)
    BY <2>1, <2>2, <2>3, <2>4 DEF RulesInv
  <2>8. DOMAIN upstream' = Conns /\ reported' = reported
    BY <2>1 DEF RulesInv
  <2> QED BY <2>5, <2>6, <2>7, <2>8 DEF RulesInv, Rule
<1>4. ASSUME NEW c \in Conns, \E side \in Sides : peer_step(c, side) PROVE RulesInv'
  BY <1>4, RulesKept DEF peer_step, handshake
<1>5. ASSUME NEW c \in Conns, permits(c) PROVE RulesInv'
  <2>1. UNCHANGED <<kind, policy, rules, request, upstream>>
    BY <1>5 DEF permits
  <2>2. CASE Permitted(request[c]) /\ goto(c, "connect") /\ UNCHANGED reported
    <3>1. \A b \in Conns : /\ pc'[b] = "off" => pc[b] = "off"
                           /\ pc'[b] = "connect" => pc[b] = "connect" \/ kind = "forward" \/ Permitted(request[b])
      BY <1>0, <2>2 DEF goto, ConnTypeOK
    <3> QED BY <2>1, <2>2, <3>1, RulesKept
  <2>3. CASE ~Permitted(request[c]) /\ refuse(c, "denied") /\ report(<<request[c].host, port_of(request[c])>>)
    <3> DEFINE new == <<request[c].host, port_of(request[c])>>
    <3>1. Denied(new)
      BY <2>3 DEF Denied, Permitted
    <3>2. \A target \in reported' : target[2] = Local \/ Denied(target)'
      <4>1. \A target : Denied(target) => Denied(target)'
        BY <2>1 DEF Denied
      <4>2. reported' = reported \cup {new}
        BY <2>3 DEF report
      <4> HIDE DEF new
      <4> QED BY <3>1, <4>1, <4>2 DEF RulesInv
    <3>3. pc' = [pc EXCEPT ![c] = "closing"]
      BY <2>3 DEF refuse, goto
    <3>4. \A b \in Conns : Permitted(request[b])' <=> Permitted(request[b])
      BY <2>1 DEF Permitted, port_of
    <3>5. \E s \in Servers : /\ policy' = [workflow |-> s.workflow, task |-> s.task]
                             /\ rules' = Rule(merge(s.workflow, s.task))
      BY <2>1 DEF RulesInv
    <3>6. ASSUME NEW b \in Conns
          PROVE  /\ pc'[b] = "off" => upstream'[b] = NoAddress /\ request'[b] = [step |-> "none"]
                 /\ pc'[b] = "connect" /\ kind' # "forward" => Permitted(request[b])'
                 /\ upstream'[b] # NoAddress /\ kind' # "forward" =>
                      Permitted(request[b])' /\ (upstream'[b].is_local => rules'.localhost)
      <4>1. (pc'[b] = "off" => pc[b] = "off") /\ (pc'[b] = "connect" => pc[b] = "connect")
        BY <1>0, <3>3 DEF ConnTypeOK
      <4> QED BY <2>1, <3>4, <4>1 DEF RulesInv
    <3>7. DOMAIN upstream' = Conns
      BY <2>1 DEF RulesInv
    <3> QED BY <3>2, <3>5, <3>6, <3>7 DEF RulesInv, Rule
  <2>4. CASE refuse(c, "failed") /\ UNCHANGED reported
    <3>1. \A b \in Conns : /\ pc'[b] = "off" => pc[b] = "off"
                           /\ pc'[b] = "connect" => pc[b] = "connect"
      BY <1>0, <2>4 DEF refuse, goto, ConnTypeOK
    <3> QED BY <2>1, <2>4, <3>1, RulesKept
  <2> QED BY <1>5, <2>2, <2>3, <2>4 DEF permits, Permitted
<1>6. ASSUME NEW c \in Conns, connect(c) PROVE RulesInv'
  <2> DEFINE address == Head(rest[c])
  <2>1. pc[c] = "connect" /\ UNCHANGED <<kind, policy, rules, request>>
    BY <1>6 DEF connect
  <2>2. CASE UNCHANGED <<pc, upstream>> /\ reported' \in {reported, reported \cup {<<request[c].host, Local>>}}
    <3>1. \A target \in reported' : target[2] = Local \/ Denied(target)'
      <4>1. \A target : Denied(target) => Denied(target)'
        BY <2>1 DEF Denied
      <4>2. <<request[c].host, Local>>[2] = Local
        OBVIOUS
      <4> QED BY <2>2, <4>1, <4>2 DEF RulesInv
    <3>2. \A b \in Conns : Permitted(request[b])' <=> Permitted(request[b])
      BY <2>1 DEF Permitted, port_of
    <3> QED BY <2>1, <2>2, <3>1, <3>2 DEF RulesInv, Rule
  <2>3. CASE /\ permits_address(address) /\ upstream' = [upstream EXCEPT ![c] = address]
             /\ goto(c, "answer") /\ UNCHANGED reported
    <3>1. upstream'[c] = address /\ pc'[c] = "answer" /\ DOMAIN upstream' = Conns
      BY <1>0, <2>3 DEF goto, ConnTypeOK, RulesInv
    <3>2. \A b \in Conns : b # c => upstream'[b] = upstream[b] /\ pc'[b] = pc[b]
      BY <1>0, <2>3 DEF goto, ConnTypeOK, RulesInv
    <3>3. \A b \in Conns : Permitted(request[b])' <=> Permitted(request[b])
      BY <2>1 DEF Permitted, port_of
    <3>4. kind # "forward" => Permitted(request[c]) /\ (address.is_local => rules.localhost)
      BY <2>1, <2>3 DEF RulesInv, permits_address
    <3>5. ASSUME NEW b \in Conns
          PROVE  /\ pc'[b] = "off" => upstream'[b] = NoAddress /\ request'[b] = [step |-> "none"]
                 /\ pc'[b] = "connect" /\ kind' # "forward" => Permitted(request[b])'
                 /\ upstream'[b] # NoAddress /\ kind' # "forward" =>
                      Permitted(request[b])' /\ (upstream'[b].is_local => rules'.localhost)
      <4> HIDE DEF address
      <4>1. CASE b = c
        BY <2>1, <3>1, <3>3, <3>4, <4>1
      <4>2. CASE b # c
        BY <2>1, <3>2, <3>3, <4>2 DEF RulesInv
      <4> QED BY <4>1, <4>2
    <3>6. \E s \in Servers : /\ policy' = [workflow |-> s.workflow, task |-> s.task]
                             /\ rules' = Rule(merge(s.workflow, s.task))
      BY <2>1 DEF RulesInv
    <3>7. \A target \in reported' : target[2] = Local \/ Denied(target)'
      BY <2>1, <2>3 DEF RulesInv, Denied
    <3> QED BY <3>1, <3>5, <3>6, <3>7 DEF RulesInv, Rule
  <2> QED BY <1>6, <2>2, <2>3 DEF connect, report
<1>7. ASSUME NEW c \in Conns, handler_step(c), ~permits(c), ~connect(c) PROVE RulesInv'
  <2>1. UNCHANGED <<kind, policy, rules, request, upstream, reported>>
    BY <1>7 DEF handler_step, read, connect_fails, establish, copy, pipe_ends, release, handshake
  <2>2. \A b \in Conns : (pc'[b] = "off" => pc[b] = "off") /\ (pc'[b] = "connect" => pc[b] = "connect")
    BY <1>0, <1>7 DEF handler_step, read, connect_fails, refuse, establish, copy, pipe_ends, release, goto, ConnTypeOK
  <2> QED BY <2>1, <2>2, RulesKept
<1> QED BY <1>1, <1>2, <1>3, <1>4, <1>5, <1>6, <1>7 DEF Next, handler_step, Over

\* What the rules say is what the policy says.
LEMMA RulesMean == BaseInv /\ RulesInv => ReachesAsGranted
<1> SUFFICES ASSUME BaseInv, RulesInv PROVE OnlyAllowed /\ WorkflowGrantsStay
  BY DEF ReachesAsGranted
<1>1. PICK s \in Servers : /\ policy = [workflow |-> s.workflow, task |-> s.task]
                           /\ rules = Rule(merge(s.workflow, s.task))
  BY DEF RulesInv
<1> DEFINE network == merge(s.workflow, s.task)
           texts == allowed_domains(network, Profile)
<1>2. /\ policy.workflow = s.workflow /\ policy.task = s.task
      /\ rules.domains = {from_str(text) : text \in texts} /\ rules.localhost = localhost(network)
  BY <1>1 DEF Rule
<1>3. /\ texts \subseteq Texts(s.workflow, s.task)
      /\ s.workflow.allow \cup UNION s.workflow.groups \subseteq texts
      /\ texts \subseteq GrantedTexts
      /\ localhost(network) => LastWord("localhost", "yes")
  BY <1>1, Granted
<1> HIDE DEF network, texts
<1>4. \A text \in texts : text.host \in Seq(STRING)
  BY <1>3, ServersAssumption
<1>5. ASSUME NEW c \in Conns, pc[c] # "off"
      PROVE  request[c].host \in Seq(STRING) /\ port_of(request[c]) # Local
  <2>1. kind \in Kinds /\ request[c] \in Requests[kind][c]
    BY <1>5 DEF BaseInv, TypeOK, ServerTypeOK, ConnTypeOK
  <2>2. request[c].host \in Seq(STRING) /\ request[c].port \in Nat \cup {-1}
    BY <2>1, RequestsAssumption
  <2> QED BY <2>2 DEF port_of, Local
<1>6. ASSUME NEW c \in Conns, upstream[c] # NoAddress, kind # "forward"
      PROVE  /\ \E text \in GrantedTexts : Meant(text, request[c].host, port_of(request[c]))
             /\ upstream[c].is_local => LastWord("localhost", "yes")
  <2>1. pc[c] # "off" /\ Permitted(request[c]) /\ (upstream[c].is_local => rules.localhost)
    BY <1>6 DEF RulesInv
  <2>2. PICK text \in texts : matches(from_str(text), request[c].host, port_of(request[c]))
    BY <1>2, <2>1 DEF Permitted
  <2>3. Meant(text, request[c].host, port_of(request[c]))
    BY <1>4, <1>5, <2>1, <2>2, MatchesMeant
  <2> QED BY <1>2, <1>3, <2>1, <2>3
<1>7. ASSUME NEW c \in Conns, request[c].step \in {"tunnel", "forward", "domain"},
             NEW text \in policy.workflow.allow \cup UNION policy.workflow.groups,
             from_str(text) # Rejected, Meant(text, request[c].host, port_of(request[c]))
      PROVE  <<request[c].host, port_of(request[c])>> \notin reported
  <2>1. pc[c] # "off"
    BY <1>7 DEF RulesInv
  <2>2. text \in texts
    BY <1>2, <1>3
  <2>3. matches(from_str(text), request[c].host, port_of(request[c]))
    BY <1>4, <1>5, <1>7, <2>1, <2>2, MatchesMeant
  <2>4. ~Denied(<<request[c].host, port_of(request[c])>>)
    BY <1>2, <2>2, <2>3 DEF Denied
  <2>5. <<request[c].host, port_of(request[c])>>[2] # Local
    BY <1>5, <2>1
  <2> QED BY <2>4, <2>5 DEF RulesInv
<1> QED BY <1>6, <1>7 DEF OnlyAllowed, WorkflowGrantsStay

\* Rules::permits, connect and DomainRule::matches: whatever the workflow, the
\* task and the profile say and whatever a host resolves to, a proxy is
\* connected only to a host that a granted text means (a default group counts
\* unless one of the sections disables it), to this machine only when the last
\* word on it is yes, and never denies a host that the workflow names.
THEOREM ReachesAsGrantedHolds == Spec => []ReachesAsGranted
BY BaseCorrect, RulesInit, RulesStep, RulesMean, PTL DEF Spec
=============================================================================
