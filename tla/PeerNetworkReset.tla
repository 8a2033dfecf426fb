-------------------------- MODULE PeerNetworkReset --------------------------
(***************************************************************************)
(* `kpl swarm reset-peer-network` (internal/master): the empty Peer overlay *)
(* is removed and made again with the same addresses.  Docker acknowledges  *)
(* both before the network listing shows them, answers may be lost, and     *)
(* another operator may make or remove a network of the same name.          *)
(***************************************************************************)
EXTENDS Naturals, FiniteSets

CONSTANTS Gateways,   \* gateway addresses a network may have, 0: none recorded
          HostBits,   \* host bits of the subnet
          MaxNets, MaxFaults

VARIABLES net,    \* networks ever made, by id: state, maker, gateway, containers
          view,   \* the ids the network listing shows under the name
          busy,   \* stack services exist, or some node is not Ready
          cmd,    \* the command
          faults

vars == <<net, view, busy, cmd, faults>>

Idle == [pc |-> "idle", old |-> 0, new |-> 0, gw |-> 0]
Net(by, gw) == [st |-> "there", by |-> by, gw |-> gw, box |-> FALSE]
There == {i \in DOMAIN net : net[i].st # "gone"}
Put(n) == Cardinality(DOMAIN net) < MaxNets
          /\ net' = [i \in 1..(Cardinality(DOMAIN net) + 1) |->
                       IF i \in DOMAIN net THEN net[i] ELSE n]
NewId == Cardinality(DOMAIN net) + 1

Init ==
  /\ \E gw \in Gateways, by \in {"helper", "other"} : net = [i \in {1} |-> Net(by, gw)]
  /\ view = {1} /\ busy \in BOOLEAN /\ cmd = Idle /\ faults = 0

-----------------------------------------------------------------------------
(* Docker and the other operators (external).                              *)

Quiet == UNCHANGED <<busy, cmd>>
Fault == faults < MaxFaults /\ faults' = faults + 1

\* A removed network leaves the store, and the listing follows at its own pace.
Settle ==
  /\ \/ \E i \in DOMAIN net : /\ net[i].st = "going"
                               /\ net' = [net EXCEPT ![i].st = "gone"] /\ UNCHANGED view
     \/ \E i \in (There \ view) \cup (view \ There) :
          /\ view' = IF i \in view THEN view \ {i} ELSE view \cup {i}
          /\ UNCHANGED net
  /\ UNCHANGED faults /\ Quiet

Outsider ==
  /\ Fault
  /\ \/ /\ There = {} /\ \E gw \in Gateways : Put(Net("other", gw))
        /\ UNCHANGED busy
     \/ \E i \in There : /\ net[i].st = "there"
                         /\ \/ ~net[i].box /\ net' = [net EXCEPT ![i].st = "gone"]
                            \/ net' = [net EXCEPT ![i].box = ~@]
        /\ UNCHANGED busy
     \/ busy' = ~busy /\ UNCHANGED net
  /\ UNCHANGED <<view, cmd>>

-----------------------------------------------------------------------------
(* The command.                                                            *)

\* The broadcast address, bit by bit as the code sets it.
Broadcast[k \in 0..HostBits] == IF k = 0 THEN 0 ELSE Broadcast[k - 1] + 2^(k - 1)

\* A recorded gateway is inside the subnet, neither its network nor its
\* broadcast address.
IPAM(gw) == gw = 0 \/ (gw \in 1..(2^HostBits - 1) /\ gw # Broadcast[HostBits])

\* Helper-owned, default settings, no containers.
Expected(i) == i \in There /\ net[i].by = "helper" /\ ~net[i].box

Unused == ~busy
Goto(pc) == cmd' = [cmd EXCEPT !.pc = pc]
OnlyCmd == UNCHANGED <<net, view, busy, faults>>

Fails == /\ cmd.pc \notin {"idle", "done"} /\ cmd' = Idle /\ OnlyCmd

Inspect ==
  /\ cmd.pc = "idle" /\ Unused
  /\ \E i \in view : /\ Expected(i) /\ IPAM(net[i].gw)
                     /\ cmd' = [Idle EXCEPT !.pc = "recheck", !.old = i, !.gw = net[i].gw]
  /\ OnlyCmd

Recheck == cmd.pc = "recheck" /\ Unused /\ Expected(cmd.old) /\ Goto("remove") /\ OnlyCmd

\* Docker refuses a network in use or unknown (Fails); a lost answer ends the
\* command whatever happened.
Remove ==
  /\ cmd.pc = "remove" /\ cmd.old \in There /\ ~net[cmd.old].box
  /\ net' = [net EXCEPT ![cmd.old].st = "going"]
  /\ \/ Goto("gone") /\ UNCHANGED faults
     \/ Fault /\ cmd' = Idle
  /\ UNCHANGED <<view, busy>>

\* waitResetNetworkView(old, ""): an unknown id fails the command.
WaitGone == cmd.pc = "gone" /\ view = {} /\ Goto("create") /\ OnlyCmd

\* A name conflict proves that nothing was made and is tried again; any other
\* error may follow a creation and ends the command.
Create ==
  /\ cmd.pc = "create"
  /\ \/ There # {} /\ Goto("gone") /\ UNCHANGED <<net, faults>>
     \/ /\ There = {}
        /\ \E gw \in IF cmd.gw = 0 THEN Gateways ELSE {cmd.gw} : Put(Net("helper", gw))
        /\ \/ cmd' = [cmd EXCEPT !.pc = "shown", !.new = NewId] /\ UNCHANGED faults
           \/ Fault /\ cmd' = Idle
  /\ UNCHANGED <<view, busy>>

\* waitResetNetworkView(old, new)
WaitShown == cmd.pc = "shown" /\ view = {cmd.new} /\ Goto("verify") /\ OnlyCmd

\* Mutant: the recreated network is inspected by its name.
VerifyName ==
  /\ cmd.pc = "verify"
  /\ \E i \in There : net[i].gw = cmd.gw /\ ~net[i].box
  /\ Goto("done") /\ OnlyCmd

Verify ==
  /\ cmd.pc = "verify"
  /\ Expected(cmd.new) /\ net[cmd.new].gw = cmd.gw
  /\ Goto("done") /\ OnlyCmd

Next == \/ Settle \/ Outsider \/ Fails \/ Inspect \/ Recheck \/ Remove \/ WaitGone
        \/ Create \/ WaitShown \/ Verify

Spec == Init /\ [][Next]_vars

-----------------------------------------------------------------------------

\* A reported reset is exact.  When the command reports the Peer network
\* recreated, the only network of that name is the one this command made, it is
\* empty and has the old addresses, and the old one has left the store; and a
\* network another operator made is never removed or adopted on the way.
ResetIsExact ==
  /\ cmd.pc = "verify" /\ cmd'.pc = "done" =>
       /\ There = {cmd.new} /\ cmd.new # cmd.old
       /\ net[cmd.new].by = "helper" /\ net[cmd.new].gw = net[cmd.old].gw
       /\ ~net[cmd.new].box /\ net[cmd.old].st = "gone"
  /\ cmd # Idle /\ faults' = faults =>
       \A i \in DOMAIN net : net[i].by = "other" => net'[i].st = net[i].st
=============================================================================
