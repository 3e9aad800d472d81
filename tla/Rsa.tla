-------------------------------- MODULE Rsa --------------------------------
(***************************************************************************)
(* RSA contexts: verification/rsa.c, the key operations.  An MPI is the    *)
(* integer it stands for (MpiCalls checks that the functions of Bignum     *)
(* compute on integers); NULL is an MPI without limbs.  What a context     *)
(* keeps between two calls is the interesting part: the blinding pair      *)
(* Vi, Vf, which every private operation squares, and the caches RN, RP    *)
(* and RQ, each described by the modulus it was computed for.              *)
(***************************************************************************)
EXTENDS Integers, FiniteSets

CONSTANTS Keys,         \* the keys contexts are loaded with
          Inputs,       \* numbers given to the key operations
          Draws,        \* what the random generator answers
          Blinds,       \* random multiples added to the exponents
          RsaByteBits,  \* width of a byte
          MinKeyBits,   \* 128
          MaxKeyBits,   \* MBEDTLS_MPI_MAX_BITS
          MaxRsaCalls   \* calls in one behaviour

VARIABLES ctx, rsaCall
rsaVars == <<ctx, rsaCall>>

NULL == -1
Names == {"pub", "prv"}
Fields == {"N", "E", "D", "P", "Q", "DP", "DQ", "QP", "RN", "RP", "RQ", "Vi", "Vf"}
EmptyKey == [f \in Fields |-> NULL]

RECURSIVE Bits(_)
Bits(n) == IF n <= 0 THEN 0 ELSE 1 + Bits(n \div 2)
Len8(n) == (Bits(n) + RsaByteBits - 1) \div RsaByteBits

RECURSIVE Power(_, _, _)
Power(a, e, n) == IF e = 0 THEN 1 % n
                  ELSE IF e % 2 = 0 THEN Power((a * a) % n, e \div 2, n)
                       ELSE (a * Power((a * a) % n, e \div 2, n)) % n
RECURSIVE GcdOf(_, _)
GcdOf(a, b) == IF b = 0 THEN a ELSE GcdOf(b, a % b)
InvMod(a, n) == CHOOSE b \in 0 .. n - 1 : (a * b) % n = 1 % n

(* mpi_exp_mod: a cached R^2 mod N that belongs to another modulus makes     *)
(* the Montgomery product a number unrelated to the power.                   *)
ExpMod(a, e, n, cache) == IF cache \in {NULL, n} THEN Power(a % n, e, n)
                          ELSE (Power(a % n, e, n) + 1) % n

-----------------------------------------------------------------------------
(* What a call answers: ret, its number, and the context it leaves. *)
Answer(ret, out, c) == [ret |-> ret, out |-> out, c |-> c]

mbedtls_rsa_check_pubkey(c) ==
    IF \/ c.N = NULL \/ c.E = NULL
       \/ c.N % 2 = 0 \/ c.E % 2 = 0
       \/ Bits(c.N) < MinKeyBits \/ Bits(c.N) > MaxKeyBits
       \/ Bits(c.E) < 2 \/ c.E >= c.N
    THEN "KEY_CHECK_FAILED" ELSE "ok"

(* The checks of the private key; mpi_inv_mod refuses a Q without an inverse *)
(* modulo P, mpi_mod_mpi and mpi_div_mpi a zero divisor, and the function    *)
(* then answers an error of its own.                                         *)
mbedtls_rsa_check_privkey(c) ==
    LET P1 == c.P - 1
        Q1 == c.Q - 1
        H == P1 * Q1
    IN IF mbedtls_rsa_check_pubkey(c) # "ok" THEN "KEY_CHECK_FAILED"
       ELSE IF c.P = NULL \/ c.Q = NULL \/ c.D = NULL THEN "KEY_CHECK_FAILED"
       ELSE IF P1 <= 0 \/ Q1 <= 0 \/ GcdOf(c.P, c.Q) # 1 THEN "KEY_CHECK_FAILED + ret"
       ELSE IF \/ c.P * c.Q # c.N
               \/ c.D % P1 # c.DP
               \/ c.D % Q1 # c.DQ
               \/ InvMod(c.Q, c.P) # c.QP
               \/ H % GcdOf(P1, Q1) # 0
               \/ (c.D * c.E) % (H \div GcdOf(P1, Q1)) # 1
               \/ GcdOf(c.E, H) # 1
            THEN "KEY_CHECK_FAILED" ELSE "ok"

mbedtls_rsa_check_pub_priv(pub, prv) ==
    IF \/ mbedtls_rsa_check_pubkey(pub) # "ok"
       \/ mbedtls_rsa_check_privkey(prv) # "ok"
       \/ pub.N # prv.N \/ pub.E # prv.E
    THEN "KEY_CHECK_FAILED" ELSE "ok"

(* A number read from len bytes; fault: the allocation that fails, "power"   *)
(* and "late" those of a power, before and behind the caching of R^2 mod N.  *)
Cached(c) == IF c.RN = NULL THEN [c EXCEPT !.RN = c.N] ELSE c
mbedtls_rsa_public(c, x, fault) ==
    IF fault = "read" THEN Answer("PUBLIC_FAILED", NULL, c)
    ELSE IF x >= c.N THEN Answer("BAD_INPUT_DATA", NULL, c)
    ELSE IF fault = "power" THEN Answer("PUBLIC_FAILED", NULL, c)
    ELSE IF fault = "late" THEN Answer("PUBLIC_FAILED", NULL, Cached(c))
    ELSE Answer("ok", ExpMod(x, c.E, c.N, c.RN), Cached(c))

(* The blinding pair.  The first preparation draws Vf until it is invertible *)
(* (eleven times at most; draw is the last one), and computes Vi from it;    *)
(* every later one squares both.  Each of the steps may fail and leaves what *)
(* the steps before it have stored.                                          *)
Squared(c, fault) ==
    CASE fault = "Vi" -> Answer("ALLOC_FAILED", NULL, c)
      [] fault = "Vf" -> Answer("ALLOC_FAILED", NULL,
                                [c EXCEPT !.Vi = (c.Vi * c.Vi) % c.N])
      [] OTHER -> Answer("ok", NULL, [c EXCEPT !.Vi = (c.Vi * c.Vi) % c.N,
                                               !.Vf = (c.Vf * c.Vf) % c.N])
Drawn(c, draw, fault) ==
    CASE fault = "rng" -> Answer("RNG_FAILED", NULL, c)
      [] fault = "Vf" -> Answer("ALLOC_FAILED", NULL, [c EXCEPT !.Vf = draw])
      [] fault # "rng" /\ GcdOf(draw, c.N) # 1 ->
           Answer("RNG_FAILED", NULL, [c EXCEPT !.Vf = draw, !.Vi = GcdOf(draw, c.N)])
      [] fault = "Vi" -> Answer("ALLOC_FAILED", NULL,
                                [c EXCEPT !.Vf = draw, !.Vi = InvMod(draw, c.N)])
      [] fault = "late Vi" -> Answer("ALLOC_FAILED", NULL,
                                     [Cached(c) EXCEPT !.Vf = draw, !.Vi = InvMod(draw, c.N)])
      [] OTHER -> Answer("ok", NULL,
                         [Cached(c) EXCEPT !.Vf = draw,
                                           !.Vi = ExpMod(InvMod(draw, c.N), c.E, c.N, c.RN)])
rsa_prepare_blindingViOnly(c, draw, fault) ==
    IF c.Vf # NULL THEN Answer("ok", NULL, [c EXCEPT !.Vi = (c.Vi * c.Vi) % c.N])
    ELSE Drawn(c, draw, fault)
rsa_prepare_blinding(c, draw, fault) ==
    IF c.Vf # NULL THEN Squared(c, fault) ELSE Drawn(c, draw, fault)

(* T^D mod N through the two primes, the exponents blinded by multiples of   *)
(* P - 1 and Q - 1.                                                          *)
Crt(c, T, rp, rq) ==
    LET T1 == ExpMod(T, (c.P - 1) * rp + c.DP, c.P, c.RP)
        T2 == ExpMod(T, (c.Q - 1) * rq + c.DQ, c.Q, c.RQ)
    IN T2 + (((T1 - T2) * c.QP) % c.P) * c.Q

FirstPrimed(c) == IF c.RP = NULL THEN [c EXCEPT !.RP = c.P] ELSE c
Primed(c) == IF c.RQ = NULL THEN [FirstPrimed(c) EXCEPT !.RQ = c.Q] ELSE FirstPrimed(c)
\* The two powers fail before any caching, between the caches, or behind them.
Stopped(c, fault) ==
    CASE fault = "power" -> c [] fault = "half" -> FirstPrimed(c) [] fault = "late" -> Primed(c)

(* b: NoRng when the caller gave no generator, else the pair's last draw and *)
(* the multiples for the exponents; blinding the number and the exponents    *)
(* fails as the first power does.                                            *)
NoRng == [draw |-> NULL, rp |-> 0, rq |-> 0]
Unblinded(c, x, fault) ==
    IF fault \in {"power", "half", "late"} THEN Answer("PRIVATE_FAILED", NULL, Stopped(c, fault))
    ELSE Answer("ok", Crt(c, x, 0, 0), Primed(c))
Blinded(p, x, b, fault) ==
    IF p.ret # "ok" THEN Answer("PRIVATE_FAILED", NULL, p.c)
    ELSE IF fault \in {"power", "half", "late"} THEN Answer("PRIVATE_FAILED", NULL, Stopped(p.c, fault))
    ELSE Answer("ok", (Crt(p.c, (x * p.c.Vi) % p.c.N, b.rp, b.rq) * p.c.Vf) % p.c.N,
                Primed(p.c))
mbedtls_rsa_private(c, x, b, fault) ==
    IF c.P = NULL \/ c.Q = NULL \/ c.D = NULL THEN Answer("BAD_INPUT_DATA", NULL, c)
    ELSE IF fault = "read" THEN Answer("PRIVATE_FAILED", NULL, c)
    ELSE IF x >= c.N THEN Answer("BAD_INPUT_DATA", NULL, c)
    ELSE IF b = NoRng THEN Unblinded(c, x, fault)
    ELSE Blinded(rsa_prepare_blinding(c, b.draw, fault), x, b, fault)

(* A copy that fails half way frees all of dst. *)
mbedtls_rsa_free == EmptyKey
mbedtls_rsa_copy(src, fault) ==
    IF fault = "copy" THEN Answer("ALLOC_FAILED", NULL, mbedtls_rsa_free)
    ELSE Answer("ok", NULL, src)

-----------------------------------------------------------------------------
(* The callers: what they may do with the two contexts. *)

RsaIdle == [op |-> "none", n |-> 0, on |-> "pub", in |-> 0, before |-> EmptyKey,
         ret |-> "ok", out |-> NULL]
RsaInit == ctx = [c \in Names |-> EmptyKey] /\ rsaCall = RsaIdle
RsaReady == rsaCall.n < MaxRsaCalls
Done(op, c, x, a) ==
    /\ ctx' = [ctx EXCEPT ![c] = a.c]
    /\ rsaCall' = [op |-> op, n |-> rsaCall.n + 1, on |-> c, in |-> x, before |-> ctx[c],
                   ret |-> a.ret, out |-> a.out]

(* rsa_init, then the key is read into the context (rsa_get_n and rsa_get_e  *)
(* for a public one).                                                        *)
mbedtls_rsa_init(c, k) ==
    /\ RsaReady
    /\ ctx[c] = EmptyKey
    /\ Done("init", c, 0,
            Answer("ok", NULL, [f \in Fields |-> IF f \in DOMAIN k THEN k[f] ELSE NULL]))

rsa_public(c, x, fault) ==
    /\ RsaReady /\ ctx[c].N # NULL
    /\ Done("public", c, x, mbedtls_rsa_public(ctx[c], x, fault))
rsa_private(c, x, b, fault) ==
    /\ RsaReady /\ ctx[c].N # NULL
    /\ Done("private", c, x, mbedtls_rsa_private(ctx[c], x, b, fault))
rsa_copy(c, d, fault) ==
    /\ RsaReady /\ c # d
    /\ Done("copy", d, 0, mbedtls_rsa_copy(ctx[c], fault))
rsa_free(c) ==
    /\ RsaReady /\ ctx[c] # EmptyKey
    /\ Done("free", c, 0, Answer("ok", NULL, mbedtls_rsa_free))
rsa_check(c) ==
    /\ RsaReady
    /\ Done("check", c, 0, Answer(mbedtls_rsa_check_privkey(ctx[c]), NULL, ctx[c]))
rsa_check_pair(c, d) ==
    /\ RsaReady /\ c # d
    /\ Done("check_pair", c, 0,
            Answer(mbedtls_rsa_check_pub_priv(ctx[c], ctx[d]), NULL, ctx[c]))

RsaNext ==
    \/ \E c \in Names, k \in Keys : mbedtls_rsa_init(c, k)
    \/ \E c \in Names, x \in Inputs, f \in {"none", "read", "power", "late"} : rsa_public(c, x, f)
    \/ \E c \in Names, x \in Inputs, f \in {"none", "read", "power", "half", "late"} :
           rsa_private(c, x, NoRng, f)
    \/ \E c \in Names, x \in Inputs, b \in [draw : Draws, rp : Blinds, rq : Blinds],
          f \in {"none", "read", "rng", "Vi", "late Vi", "Vf", "power", "half", "late"} :
             rsa_private(c, x, b, f)
    \/ \E c, d \in Names, f \in {"none", "copy"} : rsa_copy(c, d, f)
    \/ \E c \in Names : rsa_free(c)
    \/ \E c \in Names : rsa_check(c)
    \/ \E c, d \in Names : rsa_check_pair(c, d)

-----------------------------------------------------------------------------
(* A context whose key passed mbedtls_rsa_check_privkey. *)
Sound(c) == mbedtls_rsa_check_privkey(c) = "ok"
Paired(c) == c.Vf # NULL => (c.Vi * Power(c.Vf, c.E, c.N)) % c.N = 1

(* A private operation that reports success on a sound key answers the       *)
(* number whose public operation gives the input back, with or without       *)
(* blinding, through squared pairs, cached values and copied contexts -      *)
(* unless an earlier preparation failed half way and left a pair that does   *)
(* not cancel (rsa_private, rsa_prepare_blinding).                           *)
PrivateInvertsPublic ==
    (rsaCall.op = "private" /\ rsaCall.ret = "ok" /\ Sound(rsaCall.before)
        /\ Paired(rsaCall.before)) =>
       /\ Power(rsaCall.out, rsaCall.before.E, rsaCall.before.N) = rsaCall.in
       /\ Paired(ctx[rsaCall.on])
=============================================================================
