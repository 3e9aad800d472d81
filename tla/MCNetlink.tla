----------------------------- MODULE MCNetlink -----------------------------
(***************************************************************************)
(* The netlink wrappers on small instances: a family with its requests     *)
(* (Genetlink), the attributes of a message (NlAttr) and multicasts        *)
(* (GenlMcast).  They share no state; part says which of them runs.        *)
(***************************************************************************)
EXTENDS Genetlink, NlAttr, GenlMcast

VARIABLE part
netvars == <<gvars, nlm, mc, part>>

\* A part that does not run stays in one of its first states.
GenlIdle == kver = "3.0" /\ \A r \in Requests : ~want[r]
NlIdle == nlm = NlMessage("driver", <<>>, 0, FALSE)
McIdle == mc.hears = {} /\ mc.live = {init_net}
NetInit ==
    \/ part = "family" /\ NlIdle /\ Init /\ McInit /\ McIdle
    \/ part = "attributes" /\ NlInit /\ Init /\ GenlIdle /\ McInit /\ McIdle
    \/ part = "multicast" /\ NlIdle /\ McInit /\ Init /\ GenlIdle

FamilyRegister == part = "family" /\ Register /\ UNCHANGED <<nlm, mc, part>>
FamilyHandle(r) == part = "family" /\ Handle(r) /\ UNCHANGED <<nlm, mc, part>>
Family == part = "family" /\ Next /\ UNCHANGED <<nlm, mc, part>>
Message == part = "attributes" /\ NlNext /\ UNCHANGED <<gvars, mc, part>>
Multicast == part = "multicast" /\ McNext /\ UNCHANGED <<gvars, nlm, part>>
NetNext == Family \/ Message \/ Multicast

NetSpec == /\ NetInit /\ [][NetNext]_netvars
           /\ WF_gvars(FamilyRegister) /\ \A r \in Requests : WF_gvars(FamilyHandle(r))

-----------------------------------------------------------------------------
(* Policies with every type, and messages of one attribute (with a rest    *)
(* behind it that is none) or two.                                         *)
Attr(type, nested, data) ==
    Header(4 + Len(data), type, nested) \o data \o Zeros(nla_total_size(Len(data)) - 4 - Len(data))

InnerPolicy == <<NLA_POLICY("UNSPEC", 0), NLA_POLICY("FLAG", 0), NLA_POLICY_MAX("U8", 5)>>
MCPolicies ==
    {<<NLA_POLICY("UNSPEC", 0), NLA_POLICY_RANGE("S8", -2, 3), NLA_POLICY_NESTED(InnerPolicy),
       NLA_POLICY("NUL_STRING", 2), NLA_POLICY("BINARY", 3)>>,
     <<[NLA_POLICY("UNSPEC", 0) EXCEPT !.strict = 3], NLA_POLICY("U16", 0),
       NLA_POLICY_NESTED_ARRAY(InnerPolicy), NLA_POLICY("STRING", 2), NLA_POLICY_NESTED(InnerPolicy)>>,
     <<NLA_POLICY("UNSPEC", 0), NLA_POLICY_MIN("U64", -1),
       [NLA_POLICY("BITFIELD32", 0) EXCEPT !.data = <<{0, 1}>>],
       NLA_POLICY_EXACT_LEN_WARN(2), NLA_POLICY("UNSPEC", 2)>>,
     <<NLA_POLICY("UNSPEC", 0), NLA_POLICY_VALIDATE_FN("MIN_LEN", 1), NLA_POLICY("REJECT", 0),
       NLA_POLICY_EXACT_LEN(3), NLA_POLICY("MSECS", 0)>>,
     NoPolicy(3)}
MCSendPolicy ==
    <<NLA_POLICY("UNSPEC", 0), NLA_POLICY("S32", 0), NLA_POLICY("U64", 0), NLA_POLICY("UNSPEC", 0),
      NLA_POLICY_NESTED(<<NLA_POLICY("UNSPEC", 0), NLA_POLICY("FLAG", 0), NLA_POLICY("NESTED", 0)>>)>>
MCGroups == <<4, 9>>

Pairs(S) == {x \o y : x \in S, y \in S}
Inner == {Attr(1, 0, <<>>), Attr(1, 128, <<>>), Attr(2, 0, <<5>>), Attr(2, 0, <<6, 0>>),
          Attr(3, 0, <<>>), <<9, 0, 1, 0>>, <<0>>, <<>>}
Elements == {Attr(1, 0, i) : i \in Inner} \cup {Attr(0, 0, <<1>>)}
Nested == {Attr(t, f, i) : t \in {2, 4}, f \in {0, 128}, i \in Inner \cup Pairs(Inner)}
          \cup {Attr(2, f, e) : f \in {0, 128}, e \in Elements \cup Pairs(Elements)}
Wide(v, sel) == <<v, 0, 0, 0, sel, 0, 0, 0>>
Flat == {Attr(t, 0, <<>>) : t \in 0 .. 5} \cup {Attr(t, f, <<v>>) : t \in {1, 3}, f \in {0, 128}, v \in {0, 3, 200}}
        \cup {Attr(t, 0, <<1, 1>>) : t \in {1, 3}} \cup {Attr(3, 0, <<1, a, b>>) : a \in {0, 1}, b \in {0, 1}}
        \cup {Attr(4, 0, <<1, 1, 1>>), Attr(4, 0, <<1, 1, 1, 1>>), Attr(4, 0, Wide(1, 0)), Attr(1, 0, Wide(2, 0)),
              Attr(2, 0, Wide(1, 3)), Attr(2, 0, Wide(1, 2)), Attr(2, 0, Wide(4, 4))}
Rests == {<<>>, <<0>>, <<4, 0, 1>>, <<3, 0, 1, 0>>, <<8, 0, 1, 0>>}
MCMessages == {a \o t : a \in Flat \cup Nested, t \in Rests} \cup Pairs(Flat)
=============================================================================
