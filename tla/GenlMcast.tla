----------------------------- MODULE GenlMcast -----------------------------
(***************************************************************************)
(* Messages of a generic netlink family (compat/backport-genetlink.c):     *)
(* genlmsg_put(), genl_notify(), genlmsg_multicast_netns() and             *)
(* genlmsg_multicast_allns(), which walks over the network namespaces      *)
(* under RCU, one step behind, so that the last one gets the message       *)
(* itself and the others clones.  Namespaces come and go meanwhile.        *)
(***************************************************************************)
EXTENDS Integers, FiniteSets, Sequences

CONSTANTS Nets,         \* namespaces, numbered in the order in which they are made
          McGroups      \* family->mcgrps: the numbers of the groups in the core

VARIABLE mc     \* [pc, nxt: the list, live: what is on it, fresh: not made yet, from: what was on it when the
                \*  call began and still is, hears: where there are listeners, group, hdr, cur, prev, delivered,
                \*  err, tried: per namespace, got: who has the message, skb: "owned", "gone" or "twice"]

\* The list is circular: it ends where it begins.
net_namespace_list == 0
EndOfList == net_namespace_list
INVALID_GROUP == -1
init_net == 1
ASSUME McAssumption == Nets \subseteq Nat \ {net_namespace_list} /\ init_net \in Nets

McInit ==
    \E hears \in SUBSET Nets :
        mc = [pc |-> "new", live |-> {init_net}, fresh |-> Nets \ {init_net}, from |-> {}, hears |-> hears,
              nxt |-> [n \in {net_namespace_list} \cup Nets |-> IF n = net_namespace_list THEN init_net ELSE EndOfList],
              group |-> INVALID_GROUP, hdr |-> <<>>, cur |-> net_namespace_list, prev |-> net_namespace_list,
              delivered |-> FALSE, err |-> "0", tried |-> [n \in Nets |-> 0], got |-> {}, skb |-> "owned"]

\* list_add_tail_rcu(&net->list) and list_del_rcu(&net->list), which keeps the
\* next pointer of what it takes off.  The kernel reuses nothing during the
\* walk, and what has gone before it makes no difference to it.
LastOnList == CHOOSE n \in mc.live : mc.nxt[n] = EndOfList
NetComes(n) ==
    /\ mc.pc \in {"put", "walk"} /\ n \in mc.fresh /\ \A m \in mc.fresh : n <= m
    /\ mc' = [mc EXCEPT !.fresh = @ \ {n}, !.live = @ \cup {n}, !.nxt[LastOnList] = n]
NetGoes(n) ==
    /\ mc.pc = "walk" /\ n \in mc.live \ {init_net}
    /\ LET before == CHOOSE m \in mc.live \cup {net_namespace_list} : mc.nxt[m] = n
       IN  mc' = [mc EXCEPT !.live = @ \ {n}, !.from = @ \ {n}, !.nxt[before] = mc.nxt[n]]

-----------------------------------------------------------------------------
__backport_genl_group(group) ==
    IF group >= Len(McGroups) THEN INVALID_GROUP ELSE McGroups[group + 1]

\* nlmsg_put() answers NULL when the skb has no room for the headers.
genlmsg_put(portid, seq, cmd) ==
    /\ mc.pc = "new"
    /\ \/ mc' = [mc EXCEPT !.pc = "put", !.hdr = <<portid, seq, cmd>>]
       \/ mc' = [mc EXCEPT !.pc = "failed"]
\* info->snd_portid and info->snd_seq
genlmsg_put_reply(cmd) == genlmsg_put(5, 1, cmd)

Consumed(skb) == IF skb = "owned" THEN "gone" ELSE "twice"
\* nlmsg_multicast() (and nlmsg_notify()) free the skb whatever they answer.
Answers(net) == IF net \in mc.hears THEN {"0", "ENOBUFS"} ELSE {"ESRCH"}
Tried(m, net, answer) ==
    [m EXCEPT !.tried[net] = @ + 1, !.got = IF answer = "0" THEN @ \cup {net} ELSE @, !.err = answer]

Refused == [mc EXCEPT !.pc = "done", !.err = "EINVAL"]
genlmsg_multicast_netns(net, group) ==
    /\ mc.pc = "put" /\ net \in mc.live
    /\ IF __backport_genl_group(group) = INVALID_GROUP THEN mc' = Refused
       ELSE \E a \in Answers(net) :
              mc' = [Tried(mc, net, a) EXCEPT !.pc = "done", !.from = {net}, !.skb = Consumed(@),
                                              !.group = __backport_genl_group(group)]
\* genl_notify() has no answer; to the request's namespace it is the same.
genl_notify(net, group) == genlmsg_multicast_netns(net, group)
genlmsg_multicast(group) == genlmsg_multicast_netns(init_net, group)
genlmsg_multicast_allns(group) ==
    /\ mc.pc = "put"
    /\ mc' = IF __backport_genl_group(group) = INVALID_GROUP THEN Refused
             ELSE [mc EXCEPT !.pc = "walk", !.from = mc.live, !.group = __backport_genl_group(group)]

(* genlmsg_mcast(): one turn of the loop, and what follows it *)
Error(m, err) == [m EXCEPT !.pc = "done", !.err = err, !.skb = Consumed(@)]
McastTurn ==
    LET net == mc.nxt[mc.cur]
        on(m) == [m EXCEPT !.prev = net, !.cur = net]
    IN  /\ mc.pc = "walk" /\ net # EndOfList
        /\ \/ mc.prev = net_namespace_list /\ mc' = on(mc)
           \/ mc.prev # net_namespace_list /\ mc' = Error(mc, "ENOMEM")        \* skb_clone() fails
           \/ /\ mc.prev # net_namespace_list
              /\ \E a \in Answers(mc.prev) :
                   LET m == Tried(mc, mc.prev, a)
                   IN  mc' = CASE a = "0" -> [on(m) EXCEPT !.delivered = TRUE]
                               [] a = "ESRCH" -> on(m)
                               [] OTHER -> Error(m, a)
AtEnd == mc.pc = "walk" /\ mc.nxt[mc.cur] = EndOfList
LastTried(answer) == [Tried(mc, mc.prev, answer) EXCEPT !.skb = Consumed(@), !.pc = "done"]
Outcome(answer) == IF answer = "ESRCH" /\ mc.delivered THEN "0" ELSE answer
\* Bug: "goto error" after the last one too, which frees the message again.
McastEndFrees ==
    AtEnd /\ \E a \in Answers(mc.prev) :
        mc' = IF Outcome(a) \in {"0", "ESRCH"} THEN [LastTried(a) EXCEPT !.err = Outcome(a)] ELSE Error(LastTried(a), a)
McastEnd ==
    AtEnd /\ \E a \in Answers(mc.prev) : mc' = [LastTried(a) EXCEPT !.err = Outcome(a)]

McNext ==
    \/ genlmsg_put(0, 0, "cmd") \/ genlmsg_put_reply("cmd")
    \/ \E group \in 0 .. Len(McGroups) :
          \/ genlmsg_multicast(group) \/ genlmsg_multicast_allns(group)
          \/ \E net \in Nets : genl_notify(net, group) \/ genlmsg_multicast_netns(net, group)
    \/ McastTurn \/ McastEnd
    \/ \E n \in Nets : NetComes(n) \/ NetGoes(n)

McSpec == McInit /\ [][McNext]_mc

-----------------------------------------------------------------------------
(* A multicast frees the message exactly once, however it ends (a wrong    *)
(* group leaves it to the caller), tries no namespace twice, and its       *)
(* answer is true: 0 or ESRCH only after every namespace that was there    *)
(* all the time has been tried, 0 only if one of them has it and ESRCH     *)
(* only if none has.                                                       *)
MulticastOnce ==
    /\ mc.skb # "twice" /\ \A n \in Nets : mc.tried[n] <= 1
    /\ mc.pc = "done" =>
        /\ mc.skb = IF mc.err = "EINVAL" THEN "owned" ELSE "gone"
        /\ mc.err \in {"0", "ESRCH"} => \A n \in mc.from : mc.tried[n] = 1
        /\ mc.err = "0" => mc.got # {}
        /\ mc.err \in {"ESRCH", "EINVAL"} => mc.got = {}
=============================================================================
