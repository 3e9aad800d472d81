--------------------------- MODULE MCVerification ---------------------------
(***************************************************************************)
(* The parts of the signature verification code, each with its own callers *)
(* and variables: a behaviour exercises one part while the others rest.    *)
(***************************************************************************)
EXTENDS MpiCalls, Rsa, Pkcs1, Digest, KeyRing

VARIABLE part
vars == <<mpiVars, rsaVars, asn1Vars, pkcsVars, mdVars, ringVars, part>>

MCSeedsA == [s : {1, -1}, p : {<<>>, <<0>>, <<1>>, <<6, 0>>, <<0, 8>>, <<15, 15>>,
                               <<14, 7>>, <<0, 0, 2>>}]
MCSeedsB == [s : {1, -1}, p : {<<>>, <<0>>, <<1>>, <<8>>, <<1, 8>>, <<15, 15>>, <<13, 0, 0>>}]
MCDirty == {[s |-> 1, p |-> <<>>], [s |-> -1, p |-> <<5, 5, 5, 5>>]}
MCExponents == {[s |-> 1, p |-> <<>>], [s |-> 1, p |-> <<3>>], [s |-> -1, p |-> <<1>>],
                [s |-> 1, p |-> <<13>>], [s |-> 1, p |-> <<11, 5>>]}
MCInts == {-8, -1, 0, 1, 2, 3, 7}
MCWindowBits == <<2, 5>>
MCStrings == {<<>>, <<-1>>, <<1, 0, 1>>, <<-1, 1, 1>>, <<1, -1>>, <<99>>}

MCKey55 == [N |-> 55, E |-> 3, D |-> 27, P |-> 11, Q |-> 5, DP |-> 7, DQ |-> 3, QP |-> 9]
MCKey77 == [N |-> 77, E |-> 7, D |-> 13, P |-> 11, Q |-> 7, DP |-> 3, DQ |-> 1, QP |-> 8]
MCKeys == {[N |-> 55, E |-> 3], MCKey55, MCKey77, [MCKey55 EXCEPT !.QP = 8],
           [MCKey55 EXCEPT !.P = 1]}

MCTemplates == {<<48, 7, 6, 2, 1, 2, 5, 1, 0>>, <<48, 6, 2, 1, 3, 2, 1, 4>>, <<3, 2, 0, 5>>,
                <<2, 2, 1, 9>>, <<1, 1, 1>>, <<6, 129, 1, 7>>}
MCMds == [SHA256 |-> [oid |-> <<5>>, size |-> 2], SHA224 |-> [oid |-> <<4>>, size |-> 1]]
MCHashes == {<<0, 1>>, <<255, 0>>}
MCMessages == {<<0, 255, 1, 2, 3>>}

MpiRests == obj = [o \in Objs |-> [s |-> 1, p |-> <<>>]] /\ call = NoCall
Asn1Rests == buf = <<>> /\ parsed = NoRead
PkcsRests == padding = V15 /\ number = Plain(<<>>) /\ pkcs = NoOp

Init ==
    /\ part \in {"bignum", "rsa", "asn1", "pkcs1", "digest", "keys"}
    /\ IF part = "bignum" THEN MpiInit ELSE MpiRests
    /\ IF part = "asn1" THEN Asn1Init ELSE Asn1Rests
    /\ IF part = "pkcs1" THEN PkcsInit ELSE PkcsRests
    /\ RsaInit /\ MdInit /\ RingInit

Next ==
    \/ /\ part = "bignum" /\ MpiNext
       /\ UNCHANGED <<rsaVars, asn1Vars, pkcsVars, mdVars, ringVars, part>>
    \/ /\ part = "rsa" /\ RsaNext
       /\ UNCHANGED <<mpiVars, asn1Vars, pkcsVars, mdVars, ringVars, part>>
    \/ /\ part = "asn1" /\ Asn1Next
       /\ UNCHANGED <<mpiVars, rsaVars, pkcsVars, mdVars, ringVars, part>>
    \/ /\ part = "pkcs1" /\ PkcsNext
       /\ UNCHANGED <<mpiVars, rsaVars, asn1Vars, mdVars, ringVars, part>>
    \/ /\ part = "digest" /\ MdNext
       /\ UNCHANGED <<mpiVars, rsaVars, asn1Vars, pkcsVars, ringVars, part>>
    \/ /\ part = "keys" /\ RingNext
       /\ UNCHANGED <<mpiVars, rsaVars, asn1Vars, pkcsVars, mdVars, part>>

Spec == Init /\ [][Next]_vars

(* The two halves of a key undo each other: of numbers with every blinding,  *)
(* of signatures and of encrypted messages (rsa.c).                          *)
KeyHalvesMatch == PrivateInvertsPublic /\ SignedIsVerifiable /\ DecryptGivesBack

(* What is read is what was encoded: DER inside its buffer, and a signature  *)
(* block in its one form (asn1parse.c, rsa.c).                               *)
OnlyTheEncoding == Asn1WithinBuffer /\ OneEncoding
=============================================================================
