--------------------------- MODULE NetlinkProofs ---------------------------
(***************************************************************************)
(* Proofs about the generic netlink wrappers: for any set of requests and  *)
(* any number of operations and groups, the error paths leave no more than *)
(* the copy of the operations behind (ErrorsLeaveOnlyTheCopy), and the     *)
(* wrappers of an old kernel give a family what GenlContract promises      *)
(* (ContractSpec); and for any set of network namespaces that come and go, *)
(* a multicast treats each of them and the message as it should            *)
(* (MulticastOnce).                                                        *)
(***************************************************************************)
EXTENDS Genetlink, GenlMcast, SequenceTheorems, TLAPS

-----------------------------------------------------------------------------
(* The inductive invariant.  A registration has given the core only what   *)
(* its place in the function accounts for.                                 *)
RegistrationOK ==
    /\ kver \in Kernels
    /\ rpc \in {"none", "real", "back", "ops", "groups", "done", "error", "failed", "gone"}
    /\ next \in Nat /\ famId \in {NoId, RealId} /\ visible \subseteq Ops /\ groups \in 0..NGroups
    /\ rpc \in {"none", "real", "ops", "failed", "gone"} => groups = 0
    /\ rpc \in {"none", "real", "failed", "gone"} => visible = {}
    /\ rpc = "back" /\ kver = "3.0" => groups = 0 /\ next = 1
    /\ rpc \in {"none", "real"} => next = 1
    /\ rpc = "groups" => next \in 1..NGroups + 1 /\ groups = next - 1
    /\ copy_ops \in {"none", "live"}
    /\ rpc \notin {"none", "failed"} => copy_ops = "live"
    /\ visible # {} => copy_ops = "live"

RequestTypes ==
    /\ phase \in [Requests -> {"idle", "alloc", "validate", "pre", "nack", "doit", "ack",
                               "post", "core", "done"}]
    /\ want \in [Requests -> BOOLEAN] /\ flag \in [Requests -> BOOLEAN]
    /\ bpdoit \in [Requests -> BOOLEAN]
    /\ extack \in [Requests -> {"none", "live", "freed"}]
    /\ ret \in [Requests -> Fails \union {"ok", EINTR}]
    /\ result \in [Requests -> Fails \union {"ok", EINTR, "open"}]
    /\ hooks = [r \in Requests |-> hooks[r]] /\ answer = [r \in Requests |-> answer[r]]

\* Nothing has been decided about the request, and nobody has heard of it.
Untouched(r) ==
    /\ hooks[r] = <<>> /\ result[r] = "open" /\ ret[r] = "ok"
    /\ answer[r] = <<>> /\ flag[r] = want[r]

\* It was turned down by pre_doit, and told so: what follows must not tell it
\* again, nor call a hook of the family.
TurnedDown(r) ==
    /\ Old /\ ~bpdoit[r] /\ hooks[r] = <<>> /\ result[r] \in Fails
    /\ ret[r] = "ok" /\ ~flag[r]

\* What the core still has to tell the sender is the request's result, and
\* nothing has been told; or it has nothing to tell.
Accounted(r) ==
    \/ ret[r] = result[r] /\ flag[r] = want[r] /\ answer[r] = <<>>
    \/ ret[r] = "ok" /\ ~flag[r]

PhaseOK(r) ==
    /\ phase[r] \in {"idle", "alloc"} => Untouched(r) /\ ~bpdoit[r] /\ extack[r] = "none"
    /\ phase[r] = "alloc" => Old
    /\ phase[r] \in {"validate", "pre"} => Untouched(r) /\ bpdoit[r] = Old
    /\ phase[r] = "nack" =>
          Old /\ hooks[r] = <<>> /\ result[r] \in Fails /\ ret[r] = result[r] /\ answer[r] = <<>>
    /\ phase[r] = "doit" =>
          \/ TurnedDown(r)
          \/ /\ bpdoit[r] = Old /\ hooks[r] = <<"pre">> /\ result[r] = "open"
             /\ answer[r] = <<>> /\ flag[r] = want[r]
    /\ phase[r] = "ack" =>
          /\ Old /\ bpdoit[r] /\ hooks[r] = <<"pre", "doit">> /\ result[r] \in {"ok", "EFAIL"}
          /\ ret[r] = result[r] /\ answer[r] = <<>> /\ flag[r] = want[r]
    /\ phase[r] = "post" =>
          \/ TurnedDown(r)
          \/ bpdoit[r] = Old /\ hooks[r] = <<"pre", "doit">> /\ Accounted(r)
    /\ phase[r] = "core" => Accounted(r)

\* The extack lives from pre_doit to post_doit.
ExtackOK(r) ==
    IF Old /\ phase[r] \in {"validate", "pre", "nack", "doit", "ack", "post"}
    THEN extack[r] = "live" ELSE extack[r] # "live"

RequestsOK == RequestTypes /\ \A r \in Requests : PhaseOK(r) /\ ExtackOK(r)

\* No request has come before the operations were copied.
CopyOK == copy_ops = "none" => \A r \in Requests : phase[r] = "idle"

GInv == RegistrationOK /\ RequestsOK /\ CopyOK

-----------------------------------------------------------------------------
(* The requests                                                            *)

\* A step of one request leaves what the invariant says of another one.
LEMMA OthersKept ==
    ASSUME NEW r, NEW q, q # r, PhaseOK(q), ExtackOK(q), kver' = kver,
           phase'[q] = phase[q], want'[q] = want[q], flag'[q] = flag[q],
           bpdoit'[q] = bpdoit[q], extack'[q] = extack[q], ret'[q] = ret[q],
           result'[q] = result[q], hooks'[q] = hooks[q], answer'[q] = answer[q]
    PROVE  PhaseOK(q)' /\ ExtackOK(q)'
  BY DEF PhaseOK, ExtackOK, Untouched, TurnedDown, Accounted, Old

\* The hooks and the answers are sequences of known length.
LEMMA Append1 == ASSUME NEW S, NEW x \in S PROVE Append(<<>>, x) = <<x>>
  OBVIOUS

LEMMA Append2 == ASSUME NEW S, NEW x \in S, NEW y \in S PROVE Append(<<x>>, y) = <<x, y>>
  <1> DEFINE s == Append(<<x>>, y)
             u == <<x, y>>
  <1>1. s \in Seq(S) /\ Len(s) = 2 /\ s[1] = x /\ s[2] = y
    OBVIOUS
  <1>2. u \in Seq(S) /\ Len(u) = 2 /\ u[1] = x /\ u[2] = y
    OBVIOUS
  <1> HIDE DEF s, u
  <1>3. s = u
    BY <1>1, <1>2, SeqEqual
  <1> QED
    BY <1>3 DEF s, u

LEMMA Append3 ==
    ASSUME NEW S, NEW x \in S, NEW y \in S, NEW z \in S
    PROVE  Append(<<x, y>>, z) = <<x, y, z>>
  <1> DEFINE s == Append(<<x, y>>, z)
             u == <<x, y, z>>
  <1>1. s \in Seq(S) /\ Len(s) = 3 /\ s[1] = x /\ s[2] = y /\ s[3] = z
    OBVIOUS
  <1>2. u \in Seq(S) /\ Len(u) = 3 /\ u[1] = x /\ u[2] = y /\ u[3] = z
    OBVIOUS
  <1> HIDE DEF s, u
  <1>3. s = u
    BY <1>1, <1>2, SeqEqual
  <1> QED
    BY <1>3 DEF s, u

LEMMA HookSequences ==
    /\ Append(<<>>, "pre") = <<"pre">>
    /\ Append(<<"pre">>, "doit") = <<"pre", "doit">>
    /\ Append(<<"pre", "doit">>, "post") = <<"pre", "doit", "post">>
  <1> DEFINE S == {"pre", "doit", "post"}
  <1>1. "pre" \in S /\ "doit" \in S /\ "post" \in S
    OBVIOUS
  <1> HIDE DEF S
  <1>2. Append(<<>>, "pre") = <<"pre">>
    BY <1>1, Append1
  <1>3. Append(<<"pre">>, "doit") = <<"pre", "doit">>
    BY <1>1, Append2
  <1>4. Append(<<"pre", "doit">>, "post") = <<"pre", "doit", "post">>
    BY <1>1, Append3
  <1> QED
    BY <1>2, <1>3, <1>4

\* The first acknowledgement of a request is its only answer.
LEMMA FirstAck ==
    ASSUME NEW r \in Requests, NEW e, answer[r] = <<>>, Ack(r, e)
    PROVE  \E m \in {e, ENOBUFS} : answer' = [answer EXCEPT ![r] = <<m>>]
  <1> PICK m \in {e, ENOBUFS} : answer' = Set(answer, r, Append(answer[r], m))
    BY DEF Ack
  <1>1. Append(<<>>, m) = <<m>>
    BY Append1
  <1> QED
    BY <1>1 DEF Set

Step(r) == Receive(r) \/ Handle(r)

\* What a step of a request does to the variables of all requests.
LEMMA StepTypes ==
    ASSUME RequestTypes, NEW r \in Requests, Step(r), PhaseOK(r), ExtackOK(r)
    PROVE  /\ RequestTypes' /\ UNCHANGED <<kver, regvars, want>>
           /\ \A q \in Requests \ {r} :
                 /\ phase'[q] = phase[q] /\ want'[q] = want[q] /\ flag'[q] = flag[q]
                 /\ bpdoit'[q] = bpdoit[q] /\ extack'[q] = extack[q] /\ ret'[q] = ret[q]
                 /\ result'[q] = result[q] /\ hooks'[q] = hooks[q] /\ answer'[q] = answer[q]
  <1> USE DEF RequestTypes, Set, Goto, Fails, EINTR, ENOBUFS
  <1>1. CASE Receive(r)
    BY <1>1 DEF Receive, Old
  <1>2. CASE PreAlloc(r)
    BY <1>2 DEF PreAlloc
  <1>3. CASE PreAllocFails(r)
    BY <1>3 DEF PreAllocFails
  <1>4. CASE Validate(r)
    BY <1>4 DEF Validate
  <1>5. CASE ValidateFails(r)
    BY <1>5 DEF ValidateFails, PreError, Old
  <1>6. CASE FamilyPre(r)
    BY <1>6 DEF FamilyPre
  <1>7. CASE FamilyPreFails(r)
    BY <1>7 DEF FamilyPreFails, PreError, Old
  <1>8. CASE PreNack(r)
    BY <1>8 DEF PreNack, Ack
  <1>9. CASE DoitSkipped(r)
    BY <1>9 DEF DoitSkipped
  <1>10. CASE Doit(r)
    <2> PICK e \in {"ok", "EFAIL", EINTR} :
            /\ Goto(r, "doit", IF Old /\ e # EINTR THEN "ack" ELSE "post")
            /\ ret' = Set(ret, r, e) /\ result' = Set(result, r, e)
      BY <1>10 DEF Doit
    <2>1. UNCHANGED <<kver, regvars, want, flag, bpdoit, extack, answer>> /\ hooks' = Set(hooks, r, Append(hooks[r], "doit"))
      BY <1>10 DEF Doit
    <2> QED
      BY <2>1 DEF Old
  <1>11. CASE DoitAck(r)
    BY <1>11 DEF DoitAck, Ack
  <1>12. CASE PostDoit(r)
    BY <1>12 DEF PostDoit, Old, ExtackOK
  <1>13. CASE CoreAck(r)
    BY <1>13 DEF CoreAck, Ack
  <1> QED
    BY <1>1, <1>2, <1>3, <1>4, <1>5, <1>6, <1>7, <1>8, <1>9, <1>10, <1>11, <1>12, <1>13 DEF Step, Handle

\* A step of a request keeps the invariant for it: one case per step of the
\* wrappers or of the core.
LEMMA StepKeepsRequest ==
    ASSUME RequestTypes, NEW r \in Requests, Step(r), PhaseOK(r), ExtackOK(r)
    PROVE  PhaseOK(r)' /\ ExtackOK(r)'
  <1> USE DEF PhaseOK, ExtackOK, RequestTypes, Set, Goto, Fails, EINTR, ENOBUFS, Old, Untouched
  <1>1. CASE Receive(r)
    BY <1>1 DEF Receive
  <1>2. CASE PreAlloc(r)
    BY <1>2 DEF PreAlloc
  <1>3. CASE PreAllocFails(r)
    BY <1>3 DEF PreAllocFails, Accounted
  <1>4. CASE Validate(r)
    BY <1>4 DEF Validate
  <1>5. CASE ValidateFails(r)
    BY <1>5 DEF ValidateFails, PreError, Accounted
  <1>6. CASE FamilyPre(r)
    BY <1>6, HookSequences DEF FamilyPre
  <1>7. CASE FamilyPreFails(r)
    BY <1>7 DEF FamilyPreFails, PreError, Accounted
  <1>8. CASE PreNack(r)
    BY <1>8 DEF PreNack, Ack, TurnedDown
  <1>9. CASE DoitSkipped(r)
    BY <1>9 DEF DoitSkipped, TurnedDown
  <1>10. CASE Doit(r)
    <2> PICK e \in {"ok", "EFAIL", EINTR} :
            /\ Goto(r, "doit", IF Old /\ e # EINTR THEN "ack" ELSE "post")
            /\ ret' = Set(ret, r, e) /\ result' = Set(result, r, e)
      BY <1>10 DEF Doit
    <2>1. /\ UNCHANGED <<kver, regvars, want, flag, bpdoit, extack, answer>>
          /\ hooks' = Set(hooks, r, Append(hooks[r], "doit")) /\ (Old => bpdoit[r])
      BY <1>10 DEF Doit
    <2> QED
      BY <2>1, HookSequences DEF TurnedDown, Accounted
  <1>11. CASE DoitAck(r)
    BY <1>11 DEF DoitAck, Ack, Accounted
  <1>12. CASE PostDoit(r)
    BY <1>12 DEF PostDoit, TurnedDown, Accounted
  <1>13. CASE CoreAck(r)
    BY <1>13 DEF CoreAck
  <1> QED
    BY <1>1, <1>2, <1>3, <1>4, <1>5, <1>6, <1>7, <1>8, <1>9, <1>10, <1>11, <1>12, <1>13 DEF Step, Handle

\* What a request does is what the contract lets it do, or nothing that the
\* family or the sender sees.
LEMMA StepKeepsContract ==
    ASSUME RequestTypes, NEW r \in Requests, Step(r), PhaseOK(r)
    PROVE  Contract!Next \/ UNCHANGED Contract!cvars
  <1> USE DEF PhaseOK, RequestTypes, Set, Goto, Fails, EINTR, ENOBUFS, Old, Untouched
  <1>1. CASE Receive(r)
    BY <1>1 DEF Receive, Contract!cvars
  <1>2. CASE PreAlloc(r)
    BY <1>2 DEF PreAlloc, Contract!cvars
  <1>3. CASE PreAllocFails(r)
    <2>1. Contract!Refuse(r)
      BY <1>3 DEF PreAllocFails, Contract!Refuse
    <2> QED
      BY <2>1 DEF Contract!Next
  <1>4. CASE Validate(r)
    BY <1>4 DEF Validate, Contract!cvars
  <1>5. CASE ValidateFails(r)
    <2>1. Contract!Refuse(r)
      BY <1>5 DEF ValidateFails, PreError, Contract!Refuse
    <2> QED
      BY <2>1 DEF Contract!Next
  <1>6. CASE FamilyPre(r)
    <2>1. Contract!Pre(r)
      BY <1>6, HookSequences DEF FamilyPre, Contract!Pre
    <2> QED
      BY <2>1 DEF Contract!Next
  <1>7. CASE FamilyPreFails(r)
    <2>1. Contract!Refuse(r)
      BY <1>7 DEF FamilyPreFails, PreError, Contract!Refuse
    <2> QED
      BY <2>1 DEF Contract!Next
  <1>8. CASE PreNack(r)
    <2>1. Contract!Answer(r)
      BY <1>8, FirstAck DEF PreNack, Contract!Answer
    <2> QED
      BY <2>1 DEF Contract!Next
  <1>9. CASE DoitSkipped(r)
    BY <1>9 DEF DoitSkipped, Contract!cvars
  <1>10. CASE Doit(r)
    <2>1. Contract!Doit(r)
      BY <1>10, HookSequences DEF Doit, TurnedDown, Contract!Doit
    <2> QED
      BY <2>1 DEF Contract!Next
  <1>11. CASE DoitAck(r)
    <2>1. CASE flag[r] \/ ret[r] # "ok"
      <3>1. Contract!Answer(r)
        BY <1>11, <2>1, FirstAck DEF DoitAck, Contract!Answer
      <3> QED
        BY <3>1 DEF Contract!Next
    <2>2. CASE ~(flag[r] \/ ret[r] # "ok")
      BY <1>11, <2>2 DEF DoitAck, Contract!cvars
    <2> QED
      BY <2>1, <2>2
  <1>12. CASE PostDoit(r)
    <2>1. CASE Old /\ ~bpdoit[r]
      BY <1>12, <2>1 DEF PostDoit, Contract!cvars
    <2>2. CASE ~(Old /\ ~bpdoit[r])
      <3>1. Contract!Post(r)
        BY <1>12, <2>2, HookSequences DEF PostDoit, TurnedDown, Contract!Post
      <3> QED
        BY <3>1 DEF Contract!Next
    <2> QED
      BY <2>1, <2>2
  <1>13. CASE CoreAck(r)
    <2>1. CASE ret[r] # EINTR /\ (flag[r] \/ ret[r] # "ok")
      <3>1. Contract!Answer(r)
        <4>1. ret[r] = result[r] /\ flag[r] = want[r] /\ answer[r] = <<>>
          BY <1>13, <2>1 DEF CoreAck, Accounted
        <4>2. Ack(r, result[r]) /\ UNCHANGED <<want, hooks, result>>
          BY <1>13, <2>1, <4>1 DEF CoreAck
        <4>3. result[r] \in Fails \/ (result[r] = "ok" /\ want[r])
          BY <2>1, <4>1
        <4> QED
          BY <4>1, <4>2, <4>3, FirstAck DEF Contract!Answer
      <3> QED
        BY <3>1 DEF Contract!Next
    <2>2. CASE ~(ret[r] # EINTR /\ (flag[r] \/ ret[r] # "ok"))
      BY <1>13, <2>2 DEF CoreAck, Contract!cvars
    <2> QED
      BY <2>1, <2>2
  <1> QED
    BY <1>1, <1>2, <1>3, <1>4, <1>5, <1>6, <1>7, <1>8, <1>9, <1>10, <1>11, <1>12, <1>13 DEF Step, Handle

-----------------------------------------------------------------------------
(* The registration                                                        *)

LEMMA RegistrationStep ==
    ASSUME RegistrationOK, Register \/ Unregister
    PROVE  RegistrationOK' /\ UNCHANGED <<kver, reqvars>> /\ copy_ops' \in {copy_ops, "live"}
  <1> USE GenlAssumption DEF RegistrationOK, Kernels, NoId
  <1>1. CASE RegisterCopy
    BY <1>1 DEF RegisterCopy
  <1>2. CASE RegisterReal
    <2>1. CASE rpc' = "back"
      BY <1>2, <2>1 DEF RegisterReal
    <2>2. CASE rpc' = "failed"
      BY <1>2, <2>2 DEF RegisterReal
    <2> QED
      BY <1>2, <2>1, <2>2 DEF RegisterReal
  <1>3. CASE RegisterBack
    BY <1>3 DEF RegisterBack
  <1>4. CASE RegisterOp
    <2>1. CASE rpc' = "error" /\ UNCHANGED <<visible, next>>
      BY <1>4, <2>1 DEF RegisterOp
    <2>2. CASE /\ visible' = visible \union {next}
               /\ next' = IF next = NOps THEN 1 ELSE next + 1
               /\ rpc' = IF next = NOps THEN "groups" ELSE "ops"
      <3>1. rpc = "ops" /\ next \in Ops /\ UNCHANGED <<kver, famId, groups, copy_ops, reqvars>>
        BY <1>4 DEF RegisterOp
      <3>2. visible' \subseteq Ops
        BY <2>2, <3>1
      <3>3. /\ next' \in Nat /\ rpc' \in {"groups", "ops"}
            /\ rpc' = "groups" => next' = 1
        BY <2>2, <3>1
      <3>4. groups = 0 /\ 1 \in 1..NGroups + 1 /\ copy_ops = "live"
        BY <3>1
      <3> QED
        BY <3>1, <3>2, <3>3, <3>4
    <2> QED
      BY <1>4, <2>1, <2>2 DEF RegisterOp
  <1>5. CASE RegisterGroup
    BY <1>5 DEF RegisterGroup
  <1>6. CASE RegisterError
    BY <1>6 DEF RegisterError
  <1>7. CASE Unregister
    BY <1>7 DEF Unregister
  <1> QED
    BY <1>1, <1>2, <1>3, <1>4, <1>5, <1>6, <1>7 DEF Register

-----------------------------------------------------------------------------
(* The invariant                                                           *)

LEMMA GInvInit == Init => GInv
  <1> SUFFICES ASSUME Init PROVE GInv
    OBVIOUS
  <1>1. RegistrationOK
    BY GenlAssumption DEF Init, RegistrationOK, NoId
  <1>2. RequestTypes
    BY DEF Init, RequestTypes
  <1>3. ASSUME NEW r \in Requests PROVE PhaseOK(r) /\ ExtackOK(r)
    BY DEF Init, PhaseOK, ExtackOK, Untouched
  <1>4. CopyOK
    BY DEF Init, CopyOK
  <1> QED
    BY <1>1, <1>2, <1>3, <1>4 DEF GInv, RequestsOK

\* A request has to be received first, of an operation that the core knows.
LEMMA CopyStep ==
    ASSUME RegistrationOK, CopyOK, NEW r \in Requests, Step(r)
    PROVE  copy_ops = "live"
  <1> SUFFICES ASSUME copy_ops = "none" PROVE FALSE
    BY DEF RegistrationOK
  <1>1. phase[r] = "idle" /\ visible = {}
    BY DEF RegistrationOK, CopyOK
  <1> QED
    BY <1>1 DEF Step, Receive, Handle, Goto, PreAlloc, PreAllocFails, Validate, ValidateFails, PreError,
                FamilyPre, FamilyPreFails, PreNack, DoitSkipped, Doit, DoitAck, PostDoit, CoreAck

\* A step of the registration and one of a request have no variable in common.
LEMMA GInvNext == GInv /\ [Next]_gvars => GInv'
  <1> SUFFICES ASSUME GInv, [Next]_gvars PROVE GInv'
    OBVIOUS
  <1>1. CASE Register \/ Unregister
    <2>1. RegistrationOK' /\ UNCHANGED <<kver, reqvars>> /\ copy_ops' \in {copy_ops, "live"}
      BY <1>1, RegistrationStep DEF GInv
    <2>2. RequestTypes'
      BY <2>1 DEF GInv, RequestsOK, RequestTypes, reqvars
    <2>3. ASSUME NEW r \in Requests PROVE PhaseOK(r)' /\ ExtackOK(r)'
      BY <2>1 DEF GInv, RequestsOK, PhaseOK, ExtackOK, Untouched, TurnedDown, Accounted, Old, reqvars
    <2>4. CopyOK'
      BY <2>1 DEF GInv, CopyOK, reqvars
    <2> QED
      BY <2>1, <2>2, <2>3, <2>4 DEF GInv, RequestsOK
  <1>2. ASSUME NEW r \in Requests, Step(r) PROVE GInv'
    <2> USE DEF GInv, RequestsOK
    <2>1. RequestTypes' /\ PhaseOK(r)' /\ ExtackOK(r)'
      BY <1>2, StepTypes, StepKeepsRequest
    <2>2. RegistrationOK'
      BY <1>2, StepTypes DEF RegistrationOK, regvars
    <2>3. ASSUME NEW q \in Requests, q # r PROVE PhaseOK(q)' /\ ExtackOK(q)'
      BY <1>2, <2>3, StepTypes, OthersKept
    <2>4. copy_ops' = "live"
      BY <1>2, StepTypes, CopyStep DEF regvars
    <2>5. CopyOK'
      BY <2>4 DEF CopyOK
    <2> QED
      BY <2>1, <2>2, <2>3, <2>5
  <1>3. CASE UNCHANGED gvars
    BY <1>3 DEF gvars, regvars, reqvars, GInv, RegistrationOK, RequestsOK, RequestTypes, PhaseOK,
                CopyOK, ExtackOK, Untouched, TurnedDown, Accounted, Old
  <1> QED
    BY <1>1, <1>2, <1>3 DEF Next, Step

\* Every reachable state is one that the places of the registration and of each
\* request account for.
THEOREM InvariantHolds == Spec => []GInv
  BY GInvInit, GInvNext, PTL DEF Spec

\* The variables of the registration and of the requests keep their types.
THEOREM TypesHold == Spec => []TypeOK
  <1>1. GInv => TypeOK
    BY DEF GInv, RegistrationOK, RequestsOK, RequestTypes, TypeOK
  <1> QED
    BY <1>1, InvariantHolds, PTL

\* backport_pre_doit(), extack_doit(), backport_post_doit() and
\* backport_genl_register_family(): on every path the extack is there while it
\* is used, is freed once and does not outlive its request; the copy of the
\* operations is there while the core or a request uses it; and a registration
\* that failed or was taken back has left no operation and no group, but that copy.
THEOREM ErrorPathsHold == Spec => []ErrorsLeaveOnlyTheCopy
  <1>1. GInv => ExtackSafe
    BY DEF GInv, RequestsOK, ExtackOK, ExtackSafe
  <1>2. GInv => CopyServes
    BY DEF GInv, RegistrationOK, CopyOK, CopyServes
  <1>3. GInv => OnlyTheCopyIsLeft
    BY DEF GInv, RegistrationOK, OnlyTheCopyIsLeft, Taken
  <1> QED
    BY <1>1, <1>2, <1>3, InvariantHolds, PTL DEF ErrorsLeaveOnlyTheCopy

\* backport-genetlink.c implements the contract of Linux 4.12 for every set of
\* requests on every kernel: the family's hooks run in pairs and the sender has
\* exactly one answer with the result.
THEOREM WrappersImplementContract == Spec => ContractSpec
  <1>1. Init => Contract!Init
    BY DEF Init, Contract!Init
  <1>2. GInv /\ [Next]_gvars => [Contract!Next]_(Contract!cvars)
    <2> SUFFICES ASSUME GInv, [Next]_gvars PROVE Contract!Next \/ UNCHANGED Contract!cvars
      OBVIOUS
    <2>1. CASE Register \/ Unregister
      BY <2>1, RegistrationStep DEF GInv, reqvars, Contract!cvars
    <2>2. ASSUME NEW r \in Requests, Step(r) PROVE Contract!Next \/ UNCHANGED Contract!cvars
      BY <2>2, StepKeepsContract DEF GInv, RequestsOK
    <2>3. CASE UNCHANGED gvars
      BY <2>3 DEF gvars, reqvars, Contract!cvars
    <2> QED
      BY <2>1, <2>2, <2>3 DEF Next, Step
  <1> QED
    BY <1>1, <1>2, InvariantHolds, PTL DEF Spec, ContractSpec, Contract!Spec

-----------------------------------------------------------------------------
(* Multicasts.  The list of namespaces is sorted, and it keeps the walk on *)
(* the way to every namespace that stays: no next pointer, not even that   *)
(* of a namespace that has been taken off, leads past one of them.         *)
McTypes ==
    /\ DOMAIN mc = {"pc", "live", "fresh", "from", "hears", "nxt", "group", "hdr", "cur", "prev",
                    "delivered", "err", "tried", "got", "skb"}
    /\ mc.pc \in {"new", "put", "failed", "walk", "done"}
    /\ mc.fresh \subseteq Nets /\ mc.live \subseteq Nets \ mc.fresh /\ mc.from \subseteq Nets
    /\ init_net \in mc.live
    /\ mc.nxt \in [{net_namespace_list} \cup Nets -> {net_namespace_list} \cup Nets]
    /\ mc.tried \in [Nets -> 0..1]
    /\ mc.skb \in {"owned", "gone"} /\ mc.delivered \in BOOLEAN

Entries == {net_namespace_list} \cup (Nets \ mc.fresh)
Staying == IF mc.pc = "walk" THEN mc.from ELSE mc.live

McListOK ==
    /\ \A m \in Nets \ mc.fresh, f \in mc.fresh : m < f
    /\ \A m \in Entries : mc.nxt[m] \in Entries /\ (mc.nxt[m] # EndOfList => mc.nxt[m] > m)
    /\ \A f \in mc.fresh : mc.nxt[f] = EndOfList
    /\ \A n \in mc.live : \E m \in mc.live \cup {net_namespace_list} : mc.nxt[m] = n
    /\ \E n \in mc.live : mc.nxt[n] = EndOfList
    /\ \A m \in Entries, k \in Staying : m < k => mc.nxt[m] # EndOfList /\ mc.nxt[m] <= k

\* Up to where the walk is, each namespace that stays has been tried.
McWalkOK ==
    /\ mc.pc \in {"new", "put", "failed"} =>
          /\ mc.live = Nets \ mc.fresh /\ mc.tried = [n \in Nets |-> 0] /\ mc.got = {}
          /\ mc.skb = "owned" /\ ~mc.delivered /\ mc.cur = net_namespace_list /\ mc.prev = net_namespace_list
    /\ mc.pc = "walk" =>
          /\ mc.prev = mc.cur /\ mc.cur \in Entries /\ mc.skb = "owned"
          /\ mc.from \subseteq mc.live /\ init_net \in mc.from
          /\ mc.delivered <=> mc.got # {}
          /\ \A n \in Nets : n >= mc.cur => mc.tried[n] = 0
          /\ \A k \in mc.from : k < mc.cur => mc.tried[k] = 1

McInv == McTypes /\ (mc.pc # "done" => McListOK /\ McWalkOK) /\ MulticastOnce

LEMMA EntryIsNat ==
    \A m \in Entries : m \in Nat /\ (m # net_namespace_list => m \in Nets)
  <1> SUFFICES ASSUME NEW m \in Entries PROVE m \in Nat /\ (m # net_namespace_list => m \in Nets)
    OBVIOUS
  <1>1. m = 0 \/ m \in Nets
    BY DEF Entries, net_namespace_list
  <1>2. \A n \in Nets : n \in Nat
    BY McAssumption
  <1> QED
    BY <1>1, <1>2 DEF net_namespace_list

LEMMA McInvInit == McInit => McInv
  <1> SUFFICES ASSUME McInit PROVE McInv
    OBVIOUS
  <1> USE McAssumption DEF net_namespace_list, EndOfList, init_net
  <1> PICK hears \in SUBSET Nets :
        mc = [pc |-> "new", live |-> {init_net}, fresh |-> Nets \ {init_net}, from |-> {}, hears |-> hears,
              nxt |-> [n \in {net_namespace_list} \cup Nets |-> IF n = net_namespace_list THEN init_net ELSE EndOfList],
              group |-> INVALID_GROUP, hdr |-> <<>>, cur |-> net_namespace_list, prev |-> net_namespace_list,
              delivered |-> FALSE, err |-> "0", tried |-> [n \in Nets |-> 0], got |-> {}, skb |-> "owned"]
    BY DEF McInit
  <1>1. /\ mc.pc = "new" /\ mc.live = {1} /\ mc.fresh = Nets \ {1} /\ mc.from = {} /\ mc.skb = "owned"
        /\ mc.nxt = [n \in {0} \cup Nets |-> IF n = 0 THEN 1 ELSE 0] /\ mc.got = {} /\ mc.delivered = FALSE
        /\ mc.tried = [n \in Nets |-> 0] /\ mc.cur = 0 /\ mc.prev = 0
    OBVIOUS
  <1>2. McTypes
    <2>1. DOMAIN mc = {"pc", "live", "fresh", "from", "hears", "nxt", "group", "hdr", "cur", "prev",
                       "delivered", "err", "tried", "got", "skb"}
      OBVIOUS
    <2> QED
      BY <1>1, <2>1 DEF McTypes
  <1>3. McListOK
    BY <1>1 DEF McListOK, Entries, Staying
  <1>4. McWalkOK
    BY <1>1 DEF McWalkOK
  <1> QED
    BY <1>1, <1>2, <1>3, <1>4 DEF McInv, MulticastOnce

\* A namespace is added behind the last one.
LEMMA NetComesStep ==
    ASSUME McInv, NEW n \in Nets, NetComes(n)
    PROVE  McInv'
  <1> USE McAssumption DEF net_namespace_list, EndOfList, init_net
  <1> DEFINE last == LastOnList
  <1>1. last \in mc.live /\ mc.nxt[last] = EndOfList
    BY DEF NetComes, McInv, McListOK, LastOnList
  <1>2. /\ mc.pc \in {"put", "walk"} /\ n \in mc.fresh /\ (\A m \in mc.fresh : n <= m)
        /\ mc' = [mc EXCEPT !.fresh = @ \ {n}, !.live = @ \cup {n}, !.nxt[last] = n]
    BY DEF NetComes
  <1> HIDE DEF last
  <1>3. McTypes /\ McListOK /\ McWalkOK
    BY <1>2 DEF McInv
  <1>4. /\ mc'.fresh = mc.fresh \ {n} /\ mc'.live = mc.live \cup {n} /\ mc'.nxt = [mc.nxt EXCEPT ![last] = n]
        /\ mc'.pc = mc.pc /\ mc'.from = mc.from /\ mc'.cur = mc.cur /\ mc'.prev = mc.prev
        /\ mc'.delivered = mc.delivered /\ mc'.tried = mc.tried /\ mc'.got = mc.got /\ mc'.skb = mc.skb
        /\ DOMAIN mc' = DOMAIN mc
    BY <1>2, <1>3 DEF McTypes
  <1>5. McTypes'
    BY <1>1, <1>2, <1>3, <1>4 DEF McTypes
  <1>6. McListOK'
    <2>1. \A m \in Nets \ mc'.fresh, f \in mc'.fresh : m < f
      BY <1>2, <1>3, <1>4 DEF McListOK, McTypes
    <2>2. \A m \in Entries' : mc'.nxt[m] \in Entries' /\ (mc'.nxt[m] # EndOfList => mc'.nxt[m] > m)
      BY <1>1, <1>2, <1>3, <1>4 DEF McListOK, McTypes, Entries
    <2>3. \A f \in mc'.fresh : mc'.nxt[f] = EndOfList
      BY <1>1, <1>2, <1>3, <1>4 DEF McListOK, McTypes
    <2>4. \A k \in mc'.live : \E m \in mc'.live \cup {net_namespace_list} : mc'.nxt[m] = k
      BY <1>1, <1>2, <1>3, <1>4 DEF McListOK, McTypes
    <2>5. \E k \in mc'.live : mc'.nxt[k] = EndOfList
      BY <1>1, <1>2, <1>3, <1>4 DEF McListOK, McTypes
    <2>6. \A m \in Entries', k \in Staying' : m < k => mc'.nxt[m] # EndOfList /\ mc'.nxt[m] <= k
      <3> SUFFICES ASSUME NEW m \in Entries', NEW k \in Staying', m < k
                   PROVE  mc'.nxt[m] # EndOfList /\ mc'.nxt[m] <= k
        OBVIOUS
      <3>0. n \in Nat \ {0} /\ m \in Nat /\ k \in Nat
        <4>1. m \in {0} \cup Nets
          BY DEF Entries
        <4>2. k \in Nets
          BY <1>5 DEF Staying, McTypes
        <4> QED
          BY <4>1, <4>2
      <3>1. mc'.nxt[last] = n /\ n # EndOfList
        BY <1>1, <1>3, <1>4, <3>0 DEF McTypes
      <3>2. CASE k \in Staying /\ m \in Entries
        BY <1>1, <1>3, <1>4, <3>1, <3>2 DEF McListOK, McTypes, Entries
      <3>3. CASE k = n /\ m \in Entries /\ mc.pc = "put"
        <4>1. mc.live = Nets \ mc.fresh /\ Staying = mc.live
          BY <1>3, <3>3 DEF McWalkOK, Staying
        <4>2. CASE m = last
          BY <3>1, <3>3, <4>2
        <4>3. CASE m # last
          <5>1. mc'.nxt[m] = mc.nxt[m] /\ mc.nxt[m] \in Entries
            BY <1>3, <1>4, <3>3, <4>3 DEF McTypes, Entries, McListOK
          <5>2. mc.nxt[m] # EndOfList
            <6>1. last \in Nat \ {0} /\ last \in Staying /\ last \in Entries
              BY <1>1, <1>3, <4>1 DEF McTypes, Entries
            <6>2. CASE m < last
              BY <1>3, <3>3, <6>1, <6>2 DEF McListOK
            <6>3. CASE last < m
              <7>1. m \in Staying
                BY <3>3, <4>1, <6>1, <6>3 DEF Entries
              <7> QED
                BY <1>1, <1>3, <6>1, <6>3, <7>1 DEF McListOK
            <6> QED
              BY <3>0, <4>3, <6>1, <6>2, <6>3
          <5>3. mc.nxt[m] < n
            BY <1>2, <1>3, <5>1, <5>2 DEF McListOK, Entries
          <5>4. mc.nxt[m] \in Nat
            BY <5>1, EntryIsNat
          <5> QED
            BY <3>0, <3>3, <5>1, <5>2, <5>3, <5>4
        <4> QED
          BY <4>2, <4>3
      <3>4. (k \in Staying \/ (k = n /\ mc.pc = "put")) /\ (m \in Entries \/ m = n)
        BY <1>2, <1>3, <1>4 DEF Staying, Entries
      <3>5. CASE m = n
        BY <1>2, <1>3, <3>1, <3>4, <3>5 DEF McListOK, McTypes, McWalkOK, Staying
      <3> QED
        BY <3>2, <3>3, <3>4, <3>5
    <2> QED
      BY <2>1, <2>2, <2>3, <2>4, <2>5, <2>6 DEF McListOK
  <1>7. McWalkOK'
    BY <1>1, <1>2, <1>3, <1>4 DEF McWalkOK, McTypes, Entries
  <1> QED
    BY <1>2, <1>4, <1>5, <1>6, <1>7 DEF McInv, MulticastOnce, McTypes

\* A namespace is taken off, and what was before it leads to what was behind it.
LEMMA NetGoesStep ==
    ASSUME McInv, NEW n \in Nets, NetGoes(n)
    PROVE  McInv'
  <1> USE McAssumption DEF net_namespace_list, EndOfList, init_net
  <1> DEFINE before == CHOOSE m \in mc.live \cup {net_namespace_list} : mc.nxt[m] = n
  <1>1. /\ mc.pc = "walk" /\ n \in mc.live \ {init_net}
        /\ mc' = [mc EXCEPT !.live = @ \ {n}, !.from = @ \ {n}, !.nxt[before] = mc.nxt[n]]
    BY DEF NetGoes
  <1>2. McTypes /\ McListOK /\ McWalkOK
    BY <1>1 DEF McInv
  <1>3. before \in mc.live \cup {net_namespace_list} /\ mc.nxt[before] = n
    BY <1>1, <1>2 DEF McListOK
  <1> HIDE DEF before
  <1>4. /\ mc'.live = mc.live \ {n} /\ mc'.from = mc.from \ {n} /\ mc'.nxt = [mc.nxt EXCEPT ![before] = mc.nxt[n]]
        /\ mc'.pc = mc.pc /\ mc'.fresh = mc.fresh /\ mc'.cur = mc.cur /\ mc'.prev = mc.prev
        /\ mc'.delivered = mc.delivered /\ mc'.tried = mc.tried /\ mc'.got = mc.got /\ mc'.skb = mc.skb
        /\ DOMAIN mc' = DOMAIN mc
    BY <1>1, <1>2 DEF McTypes
  <1>5. before \in mc.live /\ before \in Entries /\ n \in Entries /\ before < n
    <2>1. mc.nxt[net_namespace_list] = init_net
      BY <1>1, <1>2 DEF McListOK, McWalkOK, McTypes, Entries, Staying
    <2> QED
      BY <1>1, <1>2, <1>3, <2>1 DEF McTypes, Entries, McListOK
  <1>6. McTypes'
    BY <1>1, <1>2, <1>3, <1>4 DEF McTypes
  <1>7. McListOK'
    <2>1. \A m \in Nets \ mc'.fresh, f \in mc'.fresh : m < f
      BY <1>2, <1>4 DEF McListOK
    <2>2. \A m \in Entries' : mc'.nxt[m] \in Entries' /\ (mc'.nxt[m] # EndOfList => mc'.nxt[m] > m)
      <3> SUFFICES ASSUME NEW m \in Entries
                   PROVE  mc'.nxt[m] \in Entries /\ (mc'.nxt[m] # EndOfList => mc'.nxt[m] > m)
        BY <1>4 DEF Entries
      <3>1. CASE m = before
        <4>1. mc'.nxt[m] = mc.nxt[n] /\ before \in Nat
          BY <1>2, <1>4, <1>5, <3>1 DEF McTypes
        <4>2. mc.nxt[n] \in Entries /\ (mc.nxt[n] # EndOfList => mc.nxt[n] > n)
          BY <1>2, <1>5 DEF McListOK
        <4>3. mc.nxt[n] \in Nat
          BY <4>2 DEF Entries
        <4> QED
          BY <1>5, <3>1, <4>1, <4>2, <4>3
      <3>2. CASE m # before
        BY <1>2, <1>4, <3>2 DEF McListOK, McTypes, Entries
      <3> QED
        BY <3>1, <3>2
    <2>3. \A f \in mc'.fresh : mc'.nxt[f] = EndOfList
      BY <1>2, <1>4, <1>5 DEF McListOK, McTypes
    <2>4. \A k \in mc'.live : \E m \in mc'.live \cup {net_namespace_list} : mc'.nxt[m] = k
      <3> SUFFICES ASSUME NEW k \in mc.live, k # n
                   PROVE  \E m \in (mc.live \ {n}) \cup {net_namespace_list} : mc'.nxt[m] = k
        BY <1>4
      <3> PICK m \in mc.live \cup {net_namespace_list} : mc.nxt[m] = k
        BY <1>2 DEF McListOK
      <3>1. CASE m = n
        BY <1>2, <1>4, <1>5, <3>1 DEF McTypes
      <3>2. CASE m # n
        BY <1>2, <1>3, <1>4, <3>2 DEF McTypes
      <3> QED
        BY <3>1, <3>2
    <2>5. \E k \in mc'.live : mc'.nxt[k] = EndOfList
      <3> PICK k \in mc.live : mc.nxt[k] = EndOfList
        BY <1>2 DEF McListOK
      <3>1. CASE k = n
        BY <1>2, <1>4, <1>5, <3>1 DEF McTypes
      <3>2. CASE k # n
        BY <1>2, <1>3, <1>4, <3>2 DEF McTypes
      <3> QED
        BY <3>1, <3>2
    <2>6. \A m \in Entries', k \in Staying' : m < k => mc'.nxt[m] # EndOfList /\ mc'.nxt[m] <= k
      <3> SUFFICES ASSUME NEW m \in Entries, NEW k \in Staying, k # n, m < k
                   PROVE  mc'.nxt[m] # EndOfList /\ mc'.nxt[m] <= k
        BY <1>1, <1>4 DEF Entries, Staying
      <3>1. CASE m = before
        <4>1. n <= k
          BY <1>2, <1>3, <1>5, <3>1 DEF McListOK
        <4>2. n < k
          BY <1>1, <1>2, <4>1 DEF Staying, McTypes
        <4> QED
          BY <1>2, <1>4, <1>5, <3>1, <4>2 DEF McListOK, McTypes
      <3>2. CASE m # before
        BY <1>2, <1>4, <3>2 DEF McListOK, McTypes, Entries
      <3> QED
        BY <3>1, <3>2
    <2> QED
      BY <2>1, <2>2, <2>3, <2>4, <2>5, <2>6 DEF McListOK
  <1>8. McWalkOK'
    BY <1>1, <1>2, <1>4 DEF McWalkOK, McTypes, Entries
  <1> QED
    BY <1>1, <1>4, <1>6, <1>7, <1>8 DEF McInv, MulticastOnce, McTypes

\* One turn of the loop: the walk goes on to the next entry, or gives up.
LEMMA McastTurnStep ==
    ASSUME McInv, McastTurn
    PROVE  McInv'
  <1> USE McAssumption DEF net_namespace_list, EndOfList, init_net
  <1> DEFINE net == mc.nxt[mc.cur]
  <1>1. mc.pc = "walk" /\ net # EndOfList
    BY DEF McastTurn
  <1>2. McTypes /\ McListOK /\ McWalkOK
    BY <1>1 DEF McInv
  <1>3. /\ mc.prev = mc.cur /\ mc.cur \in Entries /\ net \in Entries /\ net > mc.cur /\ net \in Nat /\ mc.cur \in Nat
        /\ net \in Nets
    <2>1. mc.prev = mc.cur /\ mc.cur \in Entries
      BY <1>1, <1>2 DEF McWalkOK
    <2>2. net \in Entries /\ net > mc.cur
      BY <1>1, <1>2, <2>1 DEF McListOK
    <2> QED
      BY <1>1, <2>1, <2>2, EntryIsNat
  <1>4. \A k \in mc.from : k < net => k <= mc.cur
    <2> SUFFICES ASSUME NEW k \in mc.from, k < net PROVE k <= mc.cur
      OBVIOUS
    <2>1. k \in Nat /\ k \in Staying
      BY <1>1, <1>2 DEF McTypes, Staying
    <2>2. mc.cur < k => net <= k
      BY <1>2, <1>3, <2>1 DEF McListOK
    <2> QED
      BY <1>3, <2>1, <2>2
  <1>5. CASE mc.prev = net_namespace_list /\ mc' = [mc EXCEPT !.prev = net, !.cur = net]
    <2>1. /\ mc'.prev = net /\ mc'.cur = net /\ mc'.live = mc.live /\ mc'.from = mc.from /\ mc'.nxt = mc.nxt
          /\ mc'.pc = mc.pc /\ mc'.fresh = mc.fresh /\ mc'.delivered = mc.delivered /\ mc'.tried = mc.tried
          /\ mc'.got = mc.got /\ mc'.skb = mc.skb /\ DOMAIN mc' = DOMAIN mc
      BY <1>2, <1>5 DEF McTypes
    <2>2. McTypes' /\ McListOK'
      BY <1>2, <2>1 DEF McTypes, McListOK, Entries, Staying
    <2>3. McWalkOK'
      BY <1>1, <1>2, <1>3, <1>4, <1>5, <2>1 DEF McWalkOK, McTypes, Entries
    <2> QED
      BY <1>1, <2>1, <2>2, <2>3 DEF McInv, MulticastOnce, McTypes
  <1>6. CASE mc.prev # net_namespace_list /\ mc' = Error(mc, "ENOMEM")
    BY <1>1, <1>2, <1>6 DEF Error, Consumed, McInv, McTypes, McWalkOK, MulticastOnce
  <1>7. ASSUME NEW a \in Answers(mc.prev), mc.prev # net_namespace_list,
               LET m == Tried(mc, mc.prev, a)
               IN  mc' = CASE a = "0" -> [m EXCEPT !.prev = net, !.cur = net, !.delivered = TRUE]
                           [] a = "ESRCH" -> [m EXCEPT !.prev = net, !.cur = net]
                           [] OTHER -> Error(m, a)
        PROVE  McInv'
    <2> DEFINE m == Tried(mc, mc.prev, a)
    <2>1. /\ DOMAIN m = DOMAIN mc /\ m.tried = [mc.tried EXCEPT ![mc.cur] = 1] /\ m.err = a
          /\ m.got = (IF a = "0" THEN mc.got \cup {mc.cur} ELSE mc.got)
          /\ m.live = mc.live /\ m.from = mc.from /\ m.nxt = mc.nxt /\ m.skb = mc.skb
          /\ m.pc = mc.pc /\ m.fresh = mc.fresh /\ m.delivered = mc.delivered
      BY <1>1, <1>2, <1>3, <1>7 DEF Tried, McTypes, McWalkOK, Entries
    <2> HIDE DEF m
    <2>2. a \in {"0", "ENOBUFS", "ESRCH"} /\ m.tried \in [Nets -> 0..1] /\ mc.cur \in Nets
      BY <1>2, <1>3, <1>7, <2>1, EntryIsNat DEF Answers, McTypes
    <2>3. CASE a # "ENOBUFS"
      <3>1. /\ mc'.prev = net /\ mc'.cur = net /\ mc'.live = mc.live /\ mc'.from = mc.from /\ mc'.nxt = mc.nxt
            /\ mc'.pc = mc.pc /\ mc'.fresh = mc.fresh /\ mc'.delivered = (IF a = "0" THEN TRUE ELSE mc.delivered)
            /\ mc'.tried = m.tried /\ mc'.got = m.got /\ mc'.skb = mc.skb /\ DOMAIN mc' = DOMAIN mc
        BY <1>2, <1>7, <2>1, <2>2, <2>3 DEF McTypes, m
      <3>2. McTypes' /\ McListOK'
        <4>1. McTypes'
          BY <1>2, <2>2, <3>1 DEF McTypes
        <4>2. McListOK'
          BY <1>2, <3>1 DEF McListOK, Entries, Staying
        <4> QED
          BY <4>1, <4>2
      <3>3. McWalkOK'
        <4>1. \A n \in Nets : n >= net => mc'.tried[n] = 0
          BY <1>1, <1>2, <1>3, <2>1, <2>2, <3>1 DEF McWalkOK, McTypes
        <4>2. \A k \in mc.from : k < net => mc'.tried[k] = 1
          <5> SUFFICES ASSUME NEW k \in mc.from, k < net PROVE mc'.tried[k] = 1
            OBVIOUS
          <5>1. k \in Nets /\ k \in Nat /\ k <= mc.cur
            BY <1>2, <1>4 DEF McTypes
          <5>2. k < mc.cur => mc.tried[k] = 1
            BY <1>1, <1>2 DEF McWalkOK
          <5>3. mc'.tried[k] = IF k = mc.cur THEN 1 ELSE mc.tried[k]
            BY <1>2, <2>1, <3>1, <5>1 DEF McTypes
          <5> QED
            BY <1>3, <5>1, <5>2, <5>3
        <4>3. mc'.delivered <=> mc'.got # {}
          BY <1>1, <1>2, <2>1, <2>2, <3>1 DEF McWalkOK, McTypes
        <4>4. mc.from \subseteq mc.live /\ init_net \in mc.from /\ mc.skb = "owned" /\ net \in Entries'
          BY <1>1, <1>2, <1>3, <3>1 DEF McWalkOK, Entries
        <4> QED
          BY <1>1, <3>1, <4>1, <4>2, <4>3, <4>4 DEF McWalkOK
      <3>4. MulticastOnce'
        BY <1>1, <3>1, <3>2 DEF MulticastOnce, McTypes
      <3> QED
        BY <3>2, <3>3, <3>4 DEF McInv
    <2>4. CASE a = "ENOBUFS"
      <3>1. mc' = Error(m, a)
        BY <1>7, <2>4 DEF m
      <3>2. /\ mc'.pc = "done" /\ mc'.err = a /\ mc'.skb = "gone" /\ DOMAIN mc' = DOMAIN mc /\ mc'.tried = m.tried
            /\ mc'.live = mc.live /\ mc'.from = mc.from /\ mc'.nxt = mc.nxt /\ mc'.fresh = mc.fresh
            /\ mc'.delivered = mc.delivered
        BY <1>1, <1>2, <2>1, <3>1 DEF Error, Consumed, McTypes, McWalkOK
      <3>3. McTypes'
        BY <1>2, <2>2, <3>2 DEF McTypes
      <3>4. MulticastOnce'
        BY <2>4, <3>2, <3>3 DEF MulticastOnce, McTypes
      <3> QED
        BY <3>2, <3>3, <3>4 DEF McInv
    <2> QED
      BY <2>2, <2>3, <2>4
  <1> QED
    BY <1>1, <1>5, <1>6, <1>7 DEF McastTurn

\* Behind the last entry: the message itself goes there.
LEMMA McastEndStep ==
    ASSUME McInv, McastEnd
    PROVE  McInv'
  <1> USE McAssumption DEF net_namespace_list, EndOfList, init_net
  <1>1. mc.pc = "walk" /\ mc.nxt[mc.cur] = EndOfList
    BY DEF McastEnd, AtEnd
  <1>2. McTypes /\ McListOK /\ McWalkOK
    BY <1>1 DEF McInv
  <1>3. mc.prev = mc.cur /\ mc.cur \in Entries /\ mc.cur \in Nat /\ mc.skb = "owned" /\ mc.from \subseteq mc.live
    BY <1>1, <1>2, EntryIsNat DEF McWalkOK
  <1>4. \A k \in mc.from : k \in Nat /\ k \in Nets /\ k <= mc.cur
    <2> SUFFICES ASSUME NEW k \in mc.from PROVE k \in Nat /\ k \in Nets /\ k <= mc.cur
      OBVIOUS
    <2>1. k \in Nat /\ k \in Nets /\ k \in Staying
      BY <1>1, <1>2 DEF McTypes, Staying
    <2>2. ~(mc.cur < k)
      BY <1>1, <1>2, <1>3, <2>1 DEF McListOK
    <2> QED
      BY <1>3, <2>1, <2>2
  <1>5. mc.cur \in Nets
    <2>1. init_net \in mc.from
      BY <1>1, <1>2 DEF McWalkOK
    <2>2. mc.cur # net_namespace_list
      BY <1>3, <1>4, <2>1
    <2> QED
      BY <1>3, <2>2, EntryIsNat
  <1> PICK a \in Answers(mc.prev) : mc' = [LastTried(a) EXCEPT !.err = Outcome(a)]
    BY DEF McastEnd
  <1>6. /\ DOMAIN mc' = DOMAIN mc /\ mc'.pc = "done" /\ mc'.err = Outcome(a) /\ mc'.skb = "gone"
        /\ mc'.tried = [mc.tried EXCEPT ![mc.cur] = 1]
        /\ mc'.got = (IF a = "0" THEN mc.got \cup {mc.cur} ELSE mc.got)
        /\ mc'.live = mc.live /\ mc'.from = mc.from /\ mc'.nxt = mc.nxt /\ mc'.fresh = mc.fresh
        /\ mc'.delivered = mc.delivered
    <2> DEFINE m == Tried(mc, mc.prev, a)
    <2>1. /\ DOMAIN m = DOMAIN mc /\ m.tried = [mc.tried EXCEPT ![mc.cur] = 1]
          /\ m.got = (IF a = "0" THEN mc.got \cup {mc.cur} ELSE mc.got) /\ m.skb = "owned"
          /\ m.live = mc.live /\ m.from = mc.from /\ m.nxt = mc.nxt
          /\ m.pc = mc.pc /\ m.fresh = mc.fresh /\ m.delivered = mc.delivered
      BY <1>1, <1>2, <1>3, <1>5 DEF Tried, McTypes, McWalkOK
    <2>2. mc' = [[m EXCEPT !.skb = Consumed(@), !.pc = "done"] EXCEPT !.err = Outcome(a)]
      BY DEF LastTried
    <2> HIDE DEF m
    <2> QED
      BY ZenonT(60), <1>2, <2>1, <2>2 DEF Consumed, McTypes
  <1>7. McTypes'
    BY <1>2, <1>5, <1>6 DEF McTypes
  <1>8. \A k \in mc'.from : mc'.tried[k] = 1
    <2> SUFFICES ASSUME NEW k \in mc.from PROVE mc'.tried[k] = 1
      BY <1>6
    <2>1. k < mc.cur => mc.tried[k] = 1
      BY <1>1, <1>2 DEF McWalkOK
    <2>2. mc'.tried[k] = IF k = mc.cur THEN 1 ELSE mc.tried[k]
      BY <1>2, <1>4, <1>6 DEF McTypes
    <2> QED
      BY <1>3, <1>4, <2>1, <2>2
  <1>9. /\ mc'.err \in {"0", "ESRCH", "ENOBUFS"}
        /\ mc'.err = "0" => mc'.got # {}
        /\ mc'.err = "ESRCH" => mc'.got = {}
    BY <1>1, <1>2, <1>6 DEF Answers, Outcome, McWalkOK, McTypes
  <1> QED
    BY <1>6, <1>7, <1>8, <1>9 DEF McInv, MulticastOnce, McTypes

\* The calls: they end at once, or the walk begins at the head of the list.
LEMMA McastCallStep ==
    ASSUME McInv,
           \/ genlmsg_put(0, 0, "cmd") \/ genlmsg_put_reply("cmd")
           \/ \E group \in 0 .. Len(McGroups) :
                 \/ genlmsg_multicast(group) \/ genlmsg_multicast_allns(group)
                 \/ \E net \in Nets : genl_notify(net, group) \/ genlmsg_multicast_netns(net, group)
    PROVE  McInv'
  <1> USE McAssumption DEF net_namespace_list, EndOfList, init_net
  <1>1. ASSUME NEW p, NEW s, NEW c, genlmsg_put(p, s, c) PROVE McInv'
    <2>1. McTypes /\ McListOK /\ McWalkOK /\ mc.pc = "new"
      BY <1>1 DEF McInv, genlmsg_put
    <2>2. /\ mc'.pc \in {"put", "failed"} /\ DOMAIN mc' = DOMAIN mc
          /\ mc'.live = mc.live /\ mc'.from = mc.from /\ mc'.nxt = mc.nxt /\ mc'.fresh = mc.fresh
          /\ mc'.cur = mc.cur /\ mc'.prev = mc.prev /\ mc'.delivered = mc.delivered
          /\ mc'.tried = mc.tried /\ mc'.got = mc.got /\ mc'.skb = mc.skb
      BY <1>1, <2>1 DEF genlmsg_put, McTypes
    <2>3. McTypes'
      BY <2>1, <2>2 DEF McTypes
    <2>4. McListOK'
      BY <2>1, <2>2 DEF McListOK, Entries, Staying
    <2>5. McWalkOK'
      BY <2>1, <2>2 DEF McWalkOK
    <2> QED
      BY <2>2, <2>3, <2>4, <2>5 DEF McInv, MulticastOnce, McTypes
  <1>2. ASSUME mc.pc = "put", mc' = Refused PROVE McInv'
    BY <1>2 DEF McInv, Refused, McTypes, McWalkOK, MulticastOnce
  <1>3. ASSUME NEW net \in Nets, NEW group, genlmsg_multicast_netns(net, group) PROVE McInv'
    <2>1. McTypes /\ McListOK /\ McWalkOK /\ mc.pc = "put"
      BY <1>3 DEF McInv, genlmsg_multicast_netns
    <2>2. CASE mc' = Refused
      BY <1>2, <2>1, <2>2
    <2>3. CASE \E a \in Answers(net) :
                  mc' = [Tried(mc, net, a) EXCEPT !.pc = "done", !.from = {net}, !.skb = Consumed(@),
                                                  !.group = __backport_genl_group(group)]
      <3> PICK a \in Answers(net) :
                  mc' = [Tried(mc, net, a) EXCEPT !.pc = "done", !.from = {net}, !.skb = Consumed(@),
                                                  !.group = __backport_genl_group(group)]
        BY <2>3
      <3> DEFINE m == Tried(mc, net, a)
      <3>1. /\ DOMAIN m = DOMAIN mc /\ m.tried = [mc.tried EXCEPT ![net] = 1] /\ m.err = a
            /\ m.got = (IF a = "0" THEN {net} ELSE {}) /\ m.skb = "owned"
            /\ m.live = mc.live /\ m.nxt = mc.nxt /\ m.fresh = mc.fresh /\ m.delivered = mc.delivered
        <4>1. mc.got = {} /\ mc.tried[net] = 0 /\ mc.skb = "owned"
          BY <2>1 DEF McWalkOK
        <4>2. /\ DOMAIN m = DOMAIN mc /\ m.err = a /\ m.skb = mc.skb
              /\ m.tried = [mc.tried EXCEPT ![net] = mc.tried[net] + 1]
              /\ m.got = (IF a = "0" THEN mc.got \cup {net} ELSE mc.got)
              /\ m.live = mc.live /\ m.nxt = mc.nxt /\ m.fresh = mc.fresh /\ m.delivered = mc.delivered
          BY <2>1 DEF Tried, McTypes
        <4> QED
          BY <4>1, <4>2
      <3> HIDE DEF m
      <3>2. mc' = [m EXCEPT !.pc = "done", !.from = {net}, !.skb = Consumed(@), !.group = __backport_genl_group(group)]
        BY DEF m
      <3>3. /\ DOMAIN mc' = DOMAIN mc /\ mc'.pc = "done" /\ mc'.from = {net} /\ mc'.skb = "gone" /\ mc'.err = a
            /\ mc'.tried = m.tried /\ mc'.got = m.got /\ mc'.live = mc.live /\ mc'.nxt = mc.nxt
            /\ mc'.fresh = mc.fresh /\ mc'.delivered = mc.delivered
        BY <2>1, <3>1, <3>2 DEF Consumed, McTypes
      <3>4. a \in {"0", "ENOBUFS", "ESRCH"} /\ m.tried \in [Nets -> 0..1] /\ m.tried[net] = 1
        BY <2>1, <3>1 DEF Answers, McTypes
      <3>5. McTypes'
        BY <2>1, <3>3, <3>4 DEF McTypes
      <3>6. mc'.err = "0" => mc'.got # {}
        BY <3>1, <3>3
      <3>7. mc'.err \in {"ESRCH", "EINVAL"} => mc'.got = {}
        BY <3>1, <3>3
      <3>8. \A n \in Nets : mc'.tried[n] <= 1
        BY <3>5 DEF McTypes
      <3> QED
        BY <3>3, <3>4, <3>5, <3>6, <3>7, <3>8 DEF McInv, MulticastOnce
    <2> QED
      BY <1>3, <2>2, <2>3 DEF genlmsg_multicast_netns
  <1>4. ASSUME NEW group, genlmsg_multicast_allns(group) PROVE McInv'
    <2>1. McTypes /\ McListOK /\ McWalkOK /\ mc.pc = "put"
      BY <1>4 DEF McInv, genlmsg_multicast_allns
    <2>2. CASE mc' = Refused
      BY <1>2, <2>1, <2>2
    <2>3. CASE mc' = [mc EXCEPT !.pc = "walk", !.from = mc.live, !.group = __backport_genl_group(group)]
      <3>1. /\ mc'.pc = "walk" /\ mc'.from = mc.live /\ DOMAIN mc' = DOMAIN mc
            /\ mc'.live = mc.live /\ mc'.nxt = mc.nxt /\ mc'.fresh = mc.fresh
            /\ mc'.cur = mc.cur /\ mc'.prev = mc.prev /\ mc'.delivered = mc.delivered
            /\ mc'.tried = mc.tried /\ mc'.got = mc.got /\ mc'.skb = mc.skb
        BY <2>1, <2>3 DEF McTypes
      <3>2. McTypes'
        BY <2>1, <3>1 DEF McTypes
      <3>3. McListOK'
        BY <2>1, <3>1 DEF McListOK, Entries, Staying
      <3>4. McWalkOK'
        BY <2>1, <3>1 DEF McWalkOK, McTypes, Entries
      <3> QED
        BY <3>1, <3>2, <3>3, <3>4 DEF McInv, MulticastOnce, McTypes
    <2> QED
      BY <1>4, <2>2, <2>3 DEF genlmsg_multicast_allns
  <1> QED
    BY <1>1, <1>3, <1>4 DEF genlmsg_put_reply, genlmsg_multicast, genl_notify

LEMMA McInvNext == McInv /\ [McNext]_mc => McInv'
  <1> SUFFICES ASSUME McInv, [McNext]_mc PROVE McInv'
    OBVIOUS
  <1>1. CASE UNCHANGED mc
    BY <1>1 DEF McInv, McTypes, McListOK, McWalkOK, MulticastOnce, Entries, Staying
  <1>2. CASE McNext
    BY <1>2, McastCallStep, McastTurnStep, McastEndStep, NetComesStep, NetGoesStep DEF McNext
  <1> QED
    BY <1>1, <1>2

\* genlmsg_mcast() and the calls around it, for any network namespaces that
\* come and go while the list is walked under RCU: the message is freed exactly
\* once, nobody gets it twice, and the answer is true.
THEOREM MulticastHolds == McSpec => []MulticastOnce
  <1>1. McInv => MulticastOnce
    BY DEF McInv
  <1> QED
    BY <1>1, McInvInit, McInvNext, PTL DEF McSpec
=============================================================================
