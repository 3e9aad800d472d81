----------------------------- MODULE Genetlink -----------------------------
(***************************************************************************)
(* The generic netlink wrappers of compat/backport-genetlink.c: a family's *)
(* registration with the old core, and the pre_doit, doit and post_doit    *)
(* hooks that give extended acknowledgements to kernels before 4.12.       *)
(* Requests run concurrently with each other and with the registration.    *)
(*                                                                         *)
(* kver is the kernel that the package was built for: "3.0" stands for the *)
(* versions before 3.13 (operations and groups registered one by one),     *)
(* "3.13" for 3.13 to 4.11, "4.12" for the versions with extack of their   *)
(* own.                                                                    *)
(***************************************************************************)
EXTENDS Naturals, Sequences

CONSTANTS
    Requests,   \* messages sent to the family, each handled by its own task
    NOps,       \* family->n_ops
    NGroups,    \* family->n_mcgrps
    RealId      \* the id that the core generates for the family

ASSUME GenlAssumption ==
    /\ NOps \in Nat \ {0} /\ NGroups \in Nat
    /\ RealId \in Nat \ {0}

Kernels == {"3.0", "3.13", "4.12"}
Fails == {"ENOMEM", "EINVAL", "EFAIL"}  \* EFAIL: what the family's own hooks return
EINTR == "EINTR"
ENOBUFS == "ENOBUFS"
NoId == 0       \* GENL_ID_GENERATE
Ops == 1..NOps

VARIABLES
    kver,
    rpc,        \* where backport_genl_register_family() is
    next,       \* its loop variable i
    famId,      \* family->id, the copy that genlmsg_put() uses
    visible,    \* operations that the core dispatches
    groups,     \* multicast groups that the core knows
    copy_ops,   \* the copy of the operations that the core is given
    phase,      \* per request: where it is
    want,       \* the sender set NLM_F_ACK
    flag,       \* NLM_F_ACK in info->nlhdr->nlmsg_flags
    bpdoit,     \* extack->__bp_doit is not NULL
    extack,     \* the extack that info->userhdr points to
    ret,        \* return value on its way to the core
    result,     \* the request's result: "open" until it is known
    hooks,      \* the family's own hooks that have run
    answer      \* messages sent to the sender's socket

regvars == <<rpc, next, famId, visible, groups, copy_ops>>
reqvars == <<phase, want, flag, bpdoit, extack, ret, result, hooks, answer>>
gvars == <<kver, regvars, reqvars>>

Init ==
    /\ kver \in Kernels
    /\ rpc = "none" /\ next = 1 /\ famId = NoId /\ visible = {} /\ groups = 0
    /\ copy_ops = "none"
    /\ phase = [r \in Requests |-> "idle"]
    /\ want \in [Requests -> BOOLEAN] /\ flag = want
    /\ bpdoit = [r \in Requests |-> FALSE]
    /\ extack = [r \in Requests |-> "none"]
    /\ ret = [r \in Requests |-> "ok"]
    /\ result = [r \in Requests |-> "open"]
    /\ hooks = [r \in Requests |-> <<>>]
    /\ answer = [r \in Requests |-> <<>>]

Old == kver # "4.12"
Set(f, r, v) == [f EXCEPT ![r] = v]

-----------------------------------------------------------------------------
(* backport_genl_register_family()                                         *)

\* The copy of the operations, with a last entry that leads back to the family:
\* ops = kzalloc(..), kept in family->copy_ops.  No path of the file frees it.
RegisterCopy ==
    /\ rpc = "none"
    /\ \/ rpc' = "real" /\ copy_ops' = "live"
       \/ rpc' = "failed" /\ UNCHANGED copy_ops     \* if (!ops) return -ENOMEM
    /\ UNCHANGED <<kver, next, famId, visible, groups, reqvars>>

\* __real_backport_genl_register_family(): from 3.13 on the operations and the
\* groups come with it.  BACK(id) is done after an error too.
RegisterReal ==
    /\ rpc = "real"
    /\ \/ /\ rpc' = "back"
          /\ IF kver = "3.0" THEN UNCHANGED <<visible, groups>>
             ELSE visible' = Ops /\ groups' = NGroups
          /\ famId' = famId
       \/ rpc' = "failed" /\ famId' \in {famId, RealId} /\ UNCHANGED <<visible, groups>>
    /\ UNCHANGED <<kver, next, copy_ops, reqvars>>

\* BACK(id)
RegisterBack ==
    /\ rpc = "back"
    /\ famId' = RealId
    /\ rpc' = IF kver = "3.0" THEN "ops" ELSE "done"
    /\ UNCHANGED <<kver, next, visible, groups, copy_ops, reqvars>>

\* for (..) genl_register_ops(): the i-th, or the error exit.
RegisterOp ==
    /\ rpc = "ops" /\ next \in Ops
    /\ \/ /\ visible' = visible \union {next}
          /\ next' = IF next = NOps THEN 1 ELSE next + 1
          /\ rpc' = IF next = NOps THEN "groups" ELSE "ops"
       \/ rpc' = "error" /\ UNCHANGED <<visible, next>>
    /\ UNCHANGED <<kver, famId, groups, copy_ops, reqvars>>

\* One group too many: i <= n_mcgrps.
RegisterGroupTooMany ==
    /\ rpc = "groups"
    /\ IF next > NGroups + 1 THEN rpc' = "done" /\ UNCHANGED <<groups, next>>
       ELSE \/ groups' = groups + 1 /\ next' = next + 1 /\ rpc' = "groups"
            \/ rpc' = "error" /\ UNCHANGED <<groups, next>>
    /\ UNCHANGED <<kver, famId, visible, copy_ops, reqvars>>

\* for (..) genl_register_mc_group()
RegisterGroup ==
    /\ rpc = "groups"
    /\ IF next > NGroups THEN rpc' = "done" /\ UNCHANGED <<groups, next>>
       ELSE \/ groups' = groups + 1 /\ next' = next + 1 /\ rpc' = "groups"
            \/ rpc' = "error" /\ UNCHANGED <<groups, next>>
    /\ UNCHANGED <<kver, famId, visible, copy_ops, reqvars>>

\* No request of the family is being handled: the core's lock is held.
Quiet == \A r \in Requests : phase[r] \in {"idle", "done"}

\* return err without the unregistration.
RegisterErrorKept ==
    /\ rpc = "error"
    /\ rpc' = "failed"
    /\ UNCHANGED <<kver, next, famId, visible, groups, copy_ops, reqvars>>

\* error: genl_unregister_family(family); return err;
RegisterError ==
    /\ rpc = "error" /\ Quiet
    /\ rpc' = "failed"
    /\ visible' = {} /\ groups' = 0
    /\ UNCHANGED <<kver, next, famId, copy_ops, reqvars>>

\* backport_genl_unregister_family()
Unregister ==
    /\ rpc = "done" /\ Quiet
    /\ rpc' = "gone"
    /\ visible' = {} /\ groups' = 0
    /\ UNCHANGED <<kver, next, famId, copy_ops, reqvars>>

-----------------------------------------------------------------------------
(* A request, as genl_rcv_msg() of the core passes it to the hooks.        *)

Goto(r, from, to) == phase[r] = from /\ phase' = Set(phase, r, to)

\* The core finds the operation and calls family->pre_doit.
Receive(r) ==
    /\ Goto(r, "idle", IF Old THEN "alloc" ELSE "validate")
    /\ visible # {}
    /\ UNCHANGED <<kver, regvars, want, flag, bpdoit, extack, ret, result, hooks, answer>>

\* backport_pre_doit(): extack = kzalloc(..), kept in info->userhdr.
PreAlloc(r) ==
    /\ Goto(r, "alloc", "validate")
    /\ extack' = Set(extack, r, "live") /\ bpdoit' = Set(bpdoit, r, TRUE)
    /\ UNCHANGED <<kver, regvars, want, flag, ret, result, hooks, answer>>

\* if (!extack) return -ENOMEM;
PreAllocFails(r) ==
    /\ Goto(r, "alloc", "core")
    /\ ret' = Set(ret, r, "ENOMEM") /\ result' = Set(result, r, "ENOMEM")
    /\ UNCHANGED <<kver, regvars, want, flag, bpdoit, extack, hooks, answer>>

\* nlmsg_validate[_deprecated]() accepts the attributes ...
Validate(r) ==
    /\ Goto(r, "validate", "pre")
    /\ UNCHANGED <<kver, regvars, want, flag, bpdoit, extack, ret, result, hooks, answer>>

\* ... or rejects them, with a message in extack; family->pre_doit may fail too.
PreError(r, from, e) ==
    /\ Goto(r, from, IF Old THEN "nack" ELSE "core")
    /\ ret' = Set(ret, r, e) /\ result' = Set(result, r, e)
    /\ UNCHANGED <<kver, regvars, want, flag, bpdoit, extack, hooks, answer>>

ValidateFails(r) == PreError(r, "validate", "EINVAL")
FamilyPreFails(r) == PreError(r, "pre", "EFAIL")

FamilyPre(r) ==
    /\ Goto(r, "pre", "doit")
    /\ hooks' = Set(hooks, r, Append(hooks[r], "pre"))
    /\ UNCHANGED <<kver, regvars, want, flag, bpdoit, extack, ret, result, answer>>

\* extack_netlink_ack(), or netlink_ack() of the core: the message, or sk_err
\* when there is no memory for it.
Ack(r, e) == \E m \in {e, ENOBUFS} : answer' = Set(answer, r, Append(answer[r], m))

\* The error is left to the normal netlink code, which sees 0.
PreNackSilent(r) ==
    /\ Goto(r, "nack", "doit")
    /\ bpdoit' = Set(bpdoit, r, FALSE)
    /\ flag' = Set(flag, r, FALSE)
    /\ ret' = Set(ret, r, "ok")
    /\ UNCHANGED <<kver, regvars, want, extack, result, hooks, answer>>

\* if (err) { __bp_doit = NULL; extack_netlink_ack(); &= ~NLM_F_ACK; return 0; }
PreNack(r) ==
    /\ Goto(r, "nack", "doit")
    /\ bpdoit' = Set(bpdoit, r, FALSE)
    /\ Ack(r, ret[r])
    /\ flag' = Set(flag, r, FALSE)
    /\ ret' = Set(ret, r, "ok")
    /\ UNCHANGED <<kver, regvars, want, extack, result, hooks>>

\* extack_doit(): "signal from our pre_doit to not do anything".
DoitSkipped(r) ==
    /\ Goto(r, "doit", "post")
    /\ Old /\ ~bpdoit[r]
    /\ UNCHANGED <<kver, regvars, want, flag, bpdoit, extack, ret, result, hooks, answer>>

\* err = doit(skb, info)
Doit(r) ==
    /\ Old => bpdoit[r]
    /\ \E e \in {"ok", "EFAIL", EINTR} :
        /\ Goto(r, "doit", IF Old /\ e # EINTR THEN "ack" ELSE "post")
        /\ ret' = Set(ret, r, e) /\ result' = Set(result, r, e)
    /\ hooks' = Set(hooks, r, Append(hooks[r], "doit"))
    /\ UNCHANGED <<kver, regvars, want, flag, bpdoit, extack, answer>>

\* NLM_F_ACK left set: the normal netlink code sends a second ACK.
DoitAckTwice(r) ==
    /\ Goto(r, "ack", "post")
    /\ IF flag[r] \/ ret[r] # "ok" THEN Ack(r, ret[r]) ELSE answer' = answer
    /\ ret' = Set(ret, r, "ok")
    /\ UNCHANGED <<kver, regvars, want, flag, bpdoit, extack, result, hooks>>

\* if (nlmsg_flags & NLM_F_ACK || err) extack_netlink_ack(); &= ~NLM_F_ACK; return 0;
DoitAck(r) ==
    /\ Goto(r, "ack", "post")
    /\ IF flag[r] \/ ret[r] # "ok" THEN Ack(r, ret[r]) ELSE answer' = answer
    /\ flag' = Set(flag, r, FALSE)
    /\ ret' = Set(ret, r, "ok")
    /\ UNCHANGED <<kver, regvars, want, bpdoit, extack, result, hooks>>

\* The extack of a request that was turned down is not freed.
PostDoitLeaks(r) ==
    /\ Goto(r, "post", "core")
    /\ IF Old /\ ~bpdoit[r] THEN UNCHANGED <<hooks, extack>>
       ELSE /\ hooks' = Set(hooks, r, Append(hooks[r], "post"))
            /\ extack' = IF Old THEN Set(extack, r, "freed") ELSE extack
    /\ UNCHANGED <<kver, regvars, want, flag, bpdoit, ret, result, answer>>

\* backport_post_doit(): family->post_doit unless __bp_doit is NULL; then
\* kfree(info->userhdr), which is the extack or, without one, part of the skb.
PostDoit(r) ==
    /\ Goto(r, "post", "core")
    /\ hooks' = IF Old /\ ~bpdoit[r] THEN hooks ELSE Set(hooks, r, Append(hooks[r], "post"))
    /\ extack' = IF Old THEN Set(extack, r, IF extack[r] = "live" THEN "freed" ELSE "badfree")
                 ELSE extack
    /\ UNCHANGED <<kver, regvars, want, flag, bpdoit, ret, result, answer>>

\* netlink_rcv_skb() of the core: nothing for -EINTR, else as the flag or the
\* error demands.
CoreAck(r) ==
    /\ Goto(r, "core", "done")
    /\ IF ret[r] # EINTR /\ (flag[r] \/ ret[r] # "ok") THEN Ack(r, ret[r])
       ELSE answer' = answer
    /\ UNCHANGED <<kver, regvars, want, flag, bpdoit, extack, ret, result, hooks>>

-----------------------------------------------------------------------------
Register ==
    \/ RegisterCopy \/ RegisterReal \/ RegisterBack \/ RegisterOp \/ RegisterGroup
    \/ RegisterError

Handle(r) ==
    \/ PreAlloc(r) \/ PreAllocFails(r) \/ Validate(r) \/ ValidateFails(r)
    \/ FamilyPre(r) \/ FamilyPreFails(r) \/ PreNack(r)
    \/ DoitSkipped(r) \/ Doit(r) \/ DoitAck(r) \/ PostDoit(r) \/ CoreAck(r)

Next == Register \/ Unregister \/ \E r \in Requests : Receive(r) \/ Handle(r)

Spec == Init /\ [][Next]_gvars

\* Both run in a task that the scheduler does not forget.
FairSpec == Spec /\ WF_gvars(Register) /\ \A r \in Requests : WF_gvars(Handle(r))

-----------------------------------------------------------------------------
TypeOK ==
    /\ kver \in Kernels
    /\ rpc \in {"none", "real", "back", "ops", "groups", "done", "error", "failed", "gone"}
    /\ next \in Nat /\ famId \in {NoId, RealId} /\ visible \subseteq Ops /\ groups \in 0..NGroups
    /\ copy_ops \in {"none", "live"}
    /\ phase \in [Requests -> {"idle", "alloc", "validate", "pre", "nack", "doit", "ack",
                               "post", "core", "done"}]
    /\ want \in [Requests -> BOOLEAN] /\ flag \in [Requests -> BOOLEAN]
    /\ bpdoit \in [Requests -> BOOLEAN]
    /\ extack \in [Requests -> {"none", "live", "freed"}]
    /\ ret \in [Requests -> Fails \union {"ok", EINTR}]
    /\ result \in [Requests -> Fails \union {"ok", EINTR, "open"}]

\* The extack of an old kernel is there whenever a hook or an acknowledgement
\* reads it, is freed once, and never outlives its request, on every error path.
ExtackSafe ==
    \A r \in Requests :
        /\ Old /\ phase[r] \in {"validate", "pre", "nack", "doit", "ack", "post"} =>
              extack[r] = "live"
        /\ phase[r] = "done" => extack[r] # "live"

\* The copy of the operations is there while the core may go to one of them, or
\* a request whose hooks look for their family in it is under way.
CopyServes ==
    visible # {} \/ (\E r \in Requests : phase[r] \notin {"idle", "done"}) => copy_ops = "live"

\* What a registration has taken and not given back.
Taken ==
    {x \in {"operations", "groups", "copy"} :
        \/ x = "operations" /\ visible # {}
        \/ x = "groups" /\ groups # 0
        \/ x = "copy" /\ copy_ops = "live"}

\* A registration that reports an error, or has been taken back, has left
\* nothing behind in the core: all that remains is the copy of the operations.
OnlyTheCopyIsLeft == rpc \in {"failed", "gone"} => Taken \subseteq {"copy"}

\* On every kernel a request gets what a family may expect of Linux 4.12: its
\* hooks in pairs and exactly one answer with its result.
Contract == INSTANCE GenlContract
ContractSpec == Contract!Spec

\* Every request that was received and must be answered is answered in the end.
Answered ==
    \A r \in Requests :
        (result[r] \in Fails \/ (result[r] = "ok" /\ want[r])) ~> (answer[r] # <<>>)

\* An error path gives back the extack of a request, and the operations and
\* groups of a registration that failed, while requests for them are under way
\* (backport-genetlink.c:160-310).  It does not give back the copy of the
\* operations, which is allocated for each registration and never freed: the
\* property allows that, and nothing else, to be left.
ErrorsLeaveOnlyTheCopy == ExtackSafe /\ CopyServes /\ OnlyTheCopyIsLeft
=============================================================================
