------------------------------- MODULE Bignum -------------------------------
(***************************************************************************)
(* The multi-precision integers of the signature verification code,        *)
(* compat/verification/bignum.c, at the level of limbs.  An mbedtls_mpi is *)
(* a record of a sign s and a sequence p of limbs, least significant       *)
(* first; n is Len(p), and an empty p is the NULL pointer of a fresh or    *)
(* freed object.                                                           *)
(*                                                                         *)
(* Every function is an operator on a state st of the C program: st.m maps *)
(* the name of every live object, temporaries included, to its contents,   *)
(* st.ret is the error code of the MBEDTLS_MPI_CHK macro and st.fuel the   *)
(* number of allocations that still succeed.  The arguments are names, so  *)
(* that two of them may be the same object.  Once st.ret is not 0 a        *)
(* function does nothing, as the goto of the macro would skip it; Leave is *)
(* the cleanup label, which runs on every path.                            *)
(***************************************************************************)
EXTENDS Integers, Sequences, FiniteSets, SequencesExt

CONSTANTS ByteBits,     \* bits of a char: 8 in the code
          CiL,          \* ciL, chars in a limb: 4 or 8 in the code
          HexBits,      \* bits of a hexadecimal digit: 4 in the code
          MaxRadix,     \* the largest radix of the string functions: 16
          MaxLimbs,     \* MBEDTLS_MPI_MAX_LIMBS
          WindowBits,   \* exponent sizes where the window grows: 23, 79, ...
          WindowSize    \* MBEDTLS_MPI_WINDOW_SIZE

ASSUME WidthAssumption ==
    /\ {ByteBits, CiL, HexBits, MaxRadix, MaxLimbs, WindowSize} \subseteq Nat \ {0}
    /\ (ByteBits * CiL) % 2 = 0
    /\ WindowBits \in Seq(Nat)

ALLOC_FAILED == -16
BAD_INPUT_DATA == -4
INVALID_CHARACTER == -6
BUFFER_TOO_SMALL == -8
NEGATIVE_VALUE == -10
DIVISION_BY_ZERO == -12
NOT_ACCEPTABLE == -14

biL == CiL * ByteBits
biH == biL \div 2
Base == 2^biL
Half == 2^biH
HexRadix == 2^HexBits
BITS_TO_LIMBS(i) == (i + biL - 1) \div biL
CHARS_TO_LIMBS(i) == (i + CiL - 1) \div CiL

Fresh == [s |-> 1, p |-> <<>>]
MPI == [s : {1, -1}, p : Seq(0..(Base - 1))]
Eager(q) == SubSeq(q, 1, Len(q))    \* q itself, evaluated at once
Zeros(n) == Eager([i \in 1..n |-> 0])
Abs(z) == IF z < 0 THEN -z ELSE z
Sgn(z) == IF z < 0 THEN -1 ELSE 1

(* The number of significant limbs: every loop that looks for the top one. *)
RECURSIVE UsedFrom(_, _)
UsedFrom(p, i) == IF i = 0 \/ p[i] # 0 THEN i ELSE UsedFrom(p, i - 1)
Used(p) == UsedFrom(p, Len(p))
AtLeast1(i) == IF i = 0 THEN 1 ELSE i

-----------------------------------------------------------------------------
(* The C state around the functions. *)

Chk(st, next) == IF st.ret # 0 THEN st ELSE next
Then(st, F(_)) == IF st.ret # 0 THEN st ELSE F(st)
Fail(st, r) == Chk(st, [st EXCEPT !.ret = r])
Put(st, x, v) == Chk(st, [st EXCEPT !.m[x] = v])
PutSign(st, x, s) == Chk(st, [st EXCEPT !.m[x].s = s])
PutLimb(st, x, i, v) == Chk(st, [st EXCEPT !.m[x].p[i] = v])

(* Declaring locals, mbedtls_mpi_init(): s = 1, n = 0, p = NULL. *)
mpi_init(st, S) == Chk(st, [st EXCEPT !.m = @ @@ [x \in S |-> Fresh]])

(* mbedtls_mpi_free() runs whatever ret is. *)
mpi_free(st, x) == [st EXCEPT !.m[x] = Fresh]

(* The cleanup label: the locals in freed are freed; those of scope go out  *)
(* of scope, and one that still owns limbs then stays behind as a leak.     *)
Leave(st, scope, freed) ==
    LET gone == {x \in scope \cap DOMAIN st.m : x \in freed \/ st.m[x].p = <<>>}
    IN [st EXCEPT !.m = Restrict(@, DOMAIN @ \ gone) @@ <<>>]

(* One calloc() of n limbs: fails at the limit, or when memory runs out. *)
Alloc(st, n, x, v) ==
    Chk(st, IF n > MaxLimbs \/ st.fuel = 0
            THEN [st EXCEPT !.ret = ALLOC_FAILED]
            ELSE [st EXCEPT !.fuel = @ - 1, !.m[x] = v])

mpi_grow(st, x, n) ==
    Chk(st, LET X == st.m[x] IN
            IF n > MaxLimbs THEN [st EXCEPT !.ret = ALLOC_FAILED]
            ELSE IF Len(X.p) >= n THEN st
            ELSE Alloc(st, n, x, [X EXCEPT !.p = @ \o Zeros(n - Len(@))]))

mpi_shrink(st, x, n) ==
    Chk(st, LET X == st.m[x]
                keep == AtLeast1(Used(X.p))
                i == IF keep < n THEN n ELSE keep
            IN IF Len(X.p) <= n THEN mpi_grow(st, x, n)
               ELSE IF st.fuel = 0 THEN [st EXCEPT !.ret = ALLOC_FAILED]
               ELSE [st EXCEPT !.fuel = @ - 1, !.m[x].p = SubSeq(@, 1, i)])

(* copy: the sign is stored before the allocation that may fail. *)
mpi_copy(st, x, y) ==
    Chk(st, LET i == AtLeast1(Used(st.m[y].p)) IN
            IF x = y THEN st
            ELSE IF st.m[y].p = <<>> THEN mpi_free(st, x)
            ELSE Then(mpi_grow(PutSign(st, x, st.m[y].s), x, i),
                      LAMBDA g : [g EXCEPT !.m[x].p =
                          SubSeq(st.m[y].p, 1, i) \o Zeros(Len(@) - i)]))

mpi_swap(st, x, y) ==
    [st EXCEPT !.m[x] = st.m[y], !.m[y] = st.m[x]]

mpi_safe_cond_assign(st, x, y, assign) ==
    Then(mpi_grow(st, x, Len(st.m[y].p)), LAMBDA g :
         IF assign = 0 THEN g
         ELSE [g EXCEPT !.m[x] =
                 [s |-> g.m[y].s, p |-> g.m[y].p \o Zeros(Len(@.p) - Len(g.m[y].p))]])

mpi_safe_cond_swap(st, x, y, swap) ==
    IF x = y THEN st
    ELSE Then(mpi_grow(mpi_grow(st, x, Len(st.m[y].p)), y, Len(st.m[x].p)),
              LAMBDA g : IF swap = 0 THEN g ELSE mpi_swap(g, x, y))

mpi_lset(st, x, z) ==
    Then(mpi_grow(st, x, 1), LAMBDA g :
         [g EXCEPT !.m[x] = [s |-> Sgn(z), p |-> <<Abs(z)>> \o Zeros(Len(@.p) - 1)]])

-----------------------------------------------------------------------------
(* Bits. *)

OddLimb(X) == X.p[1] % 2 = 1
BitOf(limb, i) == (limb \div 2^i) % 2

mpi_get_bit(X, pos) ==
    IF Len(X.p) * biL <= pos THEN 0
    ELSE BitOf(X.p[pos \div biL + 1], pos % biL)

mpi_set_bit(st, x, pos, val) ==
    LET off == pos \div biL + 1
        short == Len(st.m[x].p) * biL <= pos
    IN IF val \notin {0, 1} THEN Fail(st, BAD_INPUT_DATA)
       ELSE IF short /\ val = 0 THEN st
       ELSE Then(IF short THEN mpi_grow(st, x, off) ELSE st, LAMBDA g :
                 [g EXCEPT !.m[x].p[off] =
                    @ + (val - BitOf(@, pos % biL)) * 2^(pos % biL)])

mpi_lsb(X) ==
    LET ones == {i \in 0..(Len(X.p) * biL - 1) : mpi_get_bit(X, i) = 1}
    IN IF ones = {} THEN 0 ELSE CHOOSE i \in ones : \A j \in ones : i <= j

mpi_clz(limb) == Cardinality({i \in 0..(biL - 1) : limb < 2^i})

mpi_bitlen(X) ==
    IF X.p = <<>> THEN 0
    ELSE LET i == AtLeast1(Used(X.p))
         IN (i - 1) * biL + biL - mpi_clz(X.p[i])

mpi_size(X) == (mpi_bitlen(X) + ByteBits - 1) \div ByteBits

ShiftLimbs(p, k) ==     \* by whole limbs, up for k > 0
    Eager([i \in 1..Len(p) |-> IF i - k \in 1..Len(p) THEN p[i - k] ELSE 0])

mpi_shift_l(st, x, count) ==
    LET t1 == count % biL
        i == mpi_bitlen(st.m[x]) + count
        Bits(q) == Eager([j \in 1..Len(q) |->
                      ((q[j] * 2^t1) % Base)
                      + (IF j = 1 THEN 0 ELSE q[j - 1] \div 2^(biL - t1))])
    IN Then(IF Len(st.m[x].p) * biL < i
            THEN mpi_grow(st, x, BITS_TO_LIMBS(i)) ELSE st,
            LAMBDA g : [g EXCEPT !.m[x].p = Bits(ShiftLimbs(@, count \div biL))])

mpi_shift_r(st, x, count) ==
    LET v0 == count \div biL
        v1 == count % biL
        n == Len(st.m[x].p)
        Bits(q) == Eager([j \in 1..n |->
                      q[j] \div 2^v1
                      + (IF j = n THEN 0 ELSE (q[j + 1] * 2^(biL - v1)) % Base)])
    IN Chk(st, IF v0 > n \/ (v0 = n /\ v1 > 0) THEN mpi_lset(st, x, 0)
               ELSE [st EXCEPT !.m[x].p = Bits(ShiftLimbs(@, -v0))])

-----------------------------------------------------------------------------
(* Comparison: 0 has no sign, a longer number decides by its own sign. *)

RECURSIVE CmpLimbs(_, _, _)
CmpLimbs(p, q, i) ==
    IF i = 0 THEN 0
    ELSE IF p[i] > q[i] THEN 1
    ELSE IF p[i] < q[i] THEN -1
    ELSE CmpLimbs(p, q, i - 1)

mpi_cmp_abs(X, Y) ==
    LET i == Used(X.p)
        j == Used(Y.p)
    IN IF i > j THEN 1 ELSE IF j > i THEN -1 ELSE CmpLimbs(X.p, Y.p, i)

mpi_cmp_mpi(X, Y) ==
    LET i == Used(X.p)
        j == Used(Y.p)
    IN IF i = 0 /\ j = 0 THEN 0
       ELSE IF i > j THEN X.s
       ELSE IF j > i THEN -Y.s
       ELSE IF X.s # Y.s THEN X.s
       ELSE X.s * CmpLimbs(X.p, Y.p, i)

(* The on-stack _B of the _int functions. *)
OfInt(z) == [s |-> Sgn(z), p |-> <<Abs(z)>>]
mpi_cmp_int(X, z) == mpi_cmp_mpi(X, OfInt(z))

-----------------------------------------------------------------------------
(* Addition and subtraction. *)

(* The loops of add_abs over limbs i.. of X, carry c into limb i, adding B's *)
(* first j limbs; past the top of X the object is grown by one limb.         *)
RECURSIVE AddLoop(_, _, _, _, _, _)
AddLoop(st, x, q, j, i, c) ==
    IF st.ret # 0 \/ (i > j /\ c = 0) THEN st
    ELSE IF i > Len(st.m[x].p) THEN AddLoop(mpi_grow(st, x, i), x, q, j, i, c)
    ELSE LET sum == st.m[x].p[i] + c + (IF i <= j THEN q[i] ELSE 0)
         IN AddLoop(PutLimb(st, x, i, sum % Base), x, q, j, i + 1, sum \div Base)

(* A mutation: the operands are not exchanged when X is B. *)
mpi_add_absNoSwap(st, x, a, b) ==
    Then(PutSign(mpi_copy(st, x, a), x, 1), LAMBDA s :
         AddLoop(mpi_grow(s, x, Used(s.m[b].p)), x, s.m[b].p, Used(s.m[b].p), 1, 0))

mpi_add_abs(st, x, a0, b0) ==
    LET a == IF x = b0 THEN x ELSE a0
        b == IF x = b0 THEN a0 ELSE b0
    IN Then(PutSign(mpi_copy(st, x, a), x, 1), LAMBDA s :
            AddLoop(mpi_grow(s, x, Used(s.m[b].p)), x, s.m[b].p, Used(s.m[b].p), 1, 0))

(* mpi_sub_hlp(): d minus the first n limbs of q, the borrow run to its end. *)
RECURSIVE mpi_sub_hlp(_, _, _, _, _)
mpi_sub_hlp(n, q, d, i, c) ==
    IF i > n /\ c = 0 THEN d
    ELSE LET diff == d[i] - c - (IF i <= n THEN q[i] ELSE 0)
         IN mpi_sub_hlp(n, q, [d EXCEPT ![i] = diff % Base], i + 1,
                        IF diff < 0 THEN 1 ELSE 0)

(* A mutation: the failing copies return instead of going to cleanup. *)
mpi_sub_absNoCleanup(st, x, a, b) ==
    LET TB == {"sub.TB"}
        bb == IF x = b THEN "sub.TB" ELSE b
        s1 == mpi_copy(mpi_init(st, TB), bb, b)
    IN Chk(st, IF mpi_cmp_abs(st.m[a], st.m[b]) < 0 THEN Fail(st, NEGATIVE_VALUE)
               ELSE Then(PutSign(mpi_copy(s1, x, a), x, 1), LAMBDA s : Leave(
                      [s EXCEPT !.m[x].p =
                         mpi_sub_hlp(Used(s.m[bb].p), s.m[bb].p, @, 1, 0)], TB, TB)))

mpi_sub_abs(st, x, a, b) ==
    LET TB == {"sub.TB"}
        bb == IF x = b THEN "sub.TB" ELSE b
        s1 == mpi_copy(mpi_init(st, TB), bb, b)
    IN Chk(st, IF mpi_cmp_abs(st.m[a], st.m[b]) < 0 THEN Fail(st, NEGATIVE_VALUE)
               ELSE Leave(Then(PutSign(mpi_copy(s1, x, a), x, 1), LAMBDA s :
                      [s EXCEPT !.m[x].p =
                         mpi_sub_hlp(Used(s.m[bb].p), s.m[bb].p, @, 1, 0)]), TB, TB))

(* add_mpi and sub_mpi: sub is 1 to add, -1 to subtract. *)
AddOrSub(st, x, a, b, sub) ==
    Chk(st, LET s == st.m[a].s
                ge == mpi_cmp_abs(st.m[a], st.m[b]) >= 0
            IN IF s * st.m[b].s * sub > 0
               THEN PutSign(mpi_add_abs(st, x, a, b), x, s)
               ELSE PutSign(mpi_sub_abs(st, x, IF ge THEN a ELSE b, IF ge THEN b ELSE a),
                            x, IF ge THEN s ELSE -s))

mpi_add_mpi(st, x, a, b) == AddOrSub(st, x, a, b, 1)
mpi_sub_mpi(st, x, a, b) == AddOrSub(st, x, a, b, -1)

(* A call with an on-stack one-limb operand, which owns no heap memory. *)
WithInt(st, z) == Put(mpi_init(st, {"_B"}), "_B", OfInt(z))
mpi_add_int(st, x, a, z) ==
    Leave(mpi_add_mpi(WithInt(st, z), x, a, "_B"), {"_B"}, {"_B"})
mpi_sub_int(st, x, a, z) ==
    Leave(mpi_sub_mpi(WithInt(st, z), x, a, "_B"), {"_B"}, {"_B"})

-----------------------------------------------------------------------------
(* Multiplication. *)

(* MULADDC_CORE in plain C, half limbs: s * b + c + d as <<low, high>>. *)
MULADDC_CORE(s, b, c, d) ==
    LET s0 == s % Half  s1 == s \div Half
        b0 == b % Half  b1 == b \div Half
        rx == s0 * b1   ry == s1 * b0
        hi == (s1 * b1 + rx \div Half + ry \div Half) % Base
        t == s0 * b0 + ((rx * Half) % Base) + ((ry * Half) % Base) + c + d
    IN <<t % Base, (hi + t \div Base) % Base>>

(* mpi_mul_hlp(): d[off..] += b * q[1..n], the last carry run to its end.  *)
RECURSIVE mpi_mul_hlp(_, _, _, _, _, _, _)
mpi_mul_hlp(n, q, d, off, b, i, c) ==
    IF i <= n
    THEN LET r == MULADDC_CORE(q[i], b, c, d[off + i])
         IN mpi_mul_hlp(n, q, [d EXCEPT ![off + i] = r[1]], off, b, i + 1, r[2])
    ELSE LET t == d[off + i] + c
             d1 == [d EXCEPT ![off + i] = t % Base]
         IN IF t < Base THEN d1 ELSE mpi_mul_hlp(n, q, d1, off, b, i + 1, 1)

RECURSIVE MulLoop(_, _, _, _, _)
MulLoop(n, q, r, d, j) ==
    IF j = 0 THEN d
    ELSE MulLoop(n, q, r, mpi_mul_hlp(n, q, d, j - 1, r[j], 1, 0), j - 1)

mpi_mul_mpi(st, x, a, b) ==
    LET T == {"mul.TA", "mul.TB"}
        ta == IF x = a THEN "mul.TA" ELSE a
        tb == IF x = b THEN "mul.TB" ELSE b
        s1 == mpi_copy(mpi_copy(mpi_init(st, T), ta, a), tb, b)
        i == Used(st.m[a].p)
        j == Used(st.m[b].p)
    IN Chk(st, Leave(Then(mpi_lset(mpi_grow(s1, x, i + j), x, 0), LAMBDA s :
                 [s EXCEPT !.m[x] =
                    [s |-> s.m[ta].s * s.m[tb].s,
                     p |-> MulLoop(i, s.m[ta].p, s.m[tb].p, @.p, j)]]), T, T))

mpi_mul_int(st, x, a, z) ==
    Leave(mpi_mul_mpi(WithInt(st, z), x, a, "_B"), {"_B"}, {"_B"})

-----------------------------------------------------------------------------
(* Division. *)

(* One half-limb quotient digit, corrected downwards: <<digit, remainder>>. *)
RECURSIVE Correct(_, _, _, _, _)
Correct(q, r, d0, d1, low) ==
    IF r < Half /\ (q >= Half \/ q * d0 > Half * r + low)
    THEN Correct(q - 1, r + d1, d0, d1, low)
    ELSE <<q, r>>

(* mbedtls_int_div_int(): <<u1, u0>> by d in half limbs, Knuth's D. *)
mpi_int_div_int(u1, u0, d) ==
    LET s == mpi_clz(d)
        dn == (d * 2^s) % Base
        n1 == ((u1 * 2^s) % Base) + ((u0 * 2^s) \div Base)
        n0 == (u0 * 2^s) % Base
        Digit(n, low) == Correct(n \div (dn \div Half), n % (dn \div Half),
                                 dn % Half, dn \div Half, low)[1]
        Low(q1) == Digit((n1 * Half + n0 \div Half - q1 * dn) % Base, n0 % Half)
        Both(q1) == (q1 * Half + Low(q1)) % Base
    IN IF d = 0 \/ u1 >= d THEN Base - 1 ELSE Both(Digit(n1, n0 \div Half))

DX == "div.X"
DY == "div.Y"
DZ == "div.Z"
DT1 == "div.T1"
DT2 == "div.T2"
DivLocals == {DX, DY, DZ, DT1, DT2}
LimbOr0(p, i) == IF i < 1 THEN 0 ELSE p[i]

(* do ... while: lower the guess in limb z of Z until the two top limbs of *)
(* Y times it are no more than the three of X.                             *)
RECURSIVE DivGuess(_, _, _, _)
DivGuess(st, i, t, z) ==
    LET Y == st.m[DY].p
        X == st.m[DX].p
        Trial(s, T, p) ==
            Chk(s, [s EXCEPT !.m[T].p = p \o SubSeq(@, Len(p) + 1, Len(@))])
        s1 == Trial(mpi_lset(st, DT1, 0), DT1, <<LimbOr0(Y, t - 1), Y[t]>>)
        s2 == mpi_mul_int(s1, DT1, DT1, st.m[DZ].p[z])
        s3 == Trial(mpi_lset(s2, DT2, 0), DT2,
                    <<LimbOr0(X, i - 2), LimbOr0(X, i - 1), X[i]>>)
    IN Then(s3, LAMBDA s :
            IF mpi_cmp_mpi(s.m[DT1], s.m[DT2]) > 0
            THEN DivGuess([s EXCEPT !.m[DZ].p[z] = (@ - 1) % Base], i, t, z)
            ELSE s)

(* The quotient limb for limb i of X, t the top limb of Y. *)
DivStep(st, i, t) ==
    LET X == st.m[DX].p
        Y == st.m[DY].p
        z == i - t
        guess == IF X[i] >= Y[t] THEN Base - 1
                 ELSE mpi_int_div_int(X[i], X[i - 1], Y[t])
        Multiply(s) == mpi_mul_int(s, DT1, DY, s.m[DZ].p[z])
        Subtract(s) == mpi_sub_mpi(mpi_shift_l(s, DT1, biL * (z - 1)), DX, DX, DT1)
        AddBack(s) == mpi_add_mpi(mpi_shift_l(mpi_copy(s, DT1, DY), DT1, biL * (z - 1)),
                                  DX, DX, DT1)
    IN Then(Subtract(Then(DivGuess(PutLimb(st, DZ, z, guess), i, t, z), Multiply)),
            LAMBDA s : IF mpi_cmp_int(s.m[DX], 0) >= 0 THEN s
                       ELSE Then(AddBack(s), LAMBDA u :
                                 [u EXCEPT !.m[DZ].p[z] = (@ - 1) % Base]))

RECURSIVE DivLoop(_, _, _)
DivLoop(st, i, t) ==
    IF st.ret # 0 \/ i <= t THEN st ELSE DivLoop(DivStep(st, i, t), i - 1, t)

(* while X >= Y: count the multiples of the shifted Y in limb z of Z. *)
RECURSIVE DivTop(_, _)
DivTop(st, z) ==
    Chk(st, IF mpi_cmp_mpi(st.m[DX], st.m[DY]) < 0 THEN st
            ELSE DivTop(mpi_sub_mpi([st EXCEPT !.m[DZ].p[z] = (@ + 1) % Base],
                                    DX, DX, DY), z))

(* Both operands are shifted until Y's top limb lacks one bit. *)
DivShift(B) == biL - 1 - (mpi_bitlen(B) % biL)

(* The quotient limbs of the shifted X by the shifted Y, top limb first. *)
DivMain(st, n, t) ==
    DivLoop(mpi_shift_r(DivTop(mpi_shift_l(st, DY, biL * (n - t)), n - t + 1),
                        DY, biL * (n - t)), n, t)

(* The steps of div_mpi once |A| >= |B|. *)
DivLong(st, a, b) ==
    LET k == DivShift(st.m[b])
        s1 == PutSign(mpi_copy(st, DX, a), DX, 1)
        s2 == PutSign(mpi_copy(s1, DY, b), DY, 1)
        s3 == mpi_lset(mpi_grow(s2, DZ, Len(st.m[a].p) + 2), DZ, 0)
        s4 == mpi_grow(mpi_grow(s3, DT1, 2), DT2, 3)
    IN Then(mpi_shift_l(mpi_shift_l(s4, DX, k), DY, k), LAMBDA s :
            DivMain(s, Len(s.m[DX].p), Len(s.m[DY].p)))

DivQ(st, q, a, b) ==
    IF q = "NULL" THEN st
    ELSE Then(mpi_copy(st, q, DZ), LAMBDA s : PutSign(s, q, s.m[a].s * s.m[b].s))

DivR(st, r, a, k) ==
    IF r = "NULL" THEN st
    ELSE Then(mpi_copy(Then(mpi_shift_r(st, DX, k), LAMBDA s : PutSign(s, DX, s.m[a].s)),
                       r, DX),
              LAMBDA s : IF mpi_cmp_int(s.m[r], 0) = 0 THEN PutSign(s, r, 1) ELSE s)

mpi_div_mpi(st, q, r, a, b) ==
    LET s1 == mpi_init(st, DivLocals)
        sq == IF q = "NULL" THEN s1 ELSE mpi_lset(s1, q, 0)
        sr == IF r = "NULL" THEN sq ELSE mpi_copy(sq, r, a)
        k == DivShift(st.m[b])
    IN Chk(st,
           IF mpi_cmp_int(st.m[b], 0) = 0 THEN Fail(st, DIVISION_BY_ZERO)
           ELSE IF mpi_cmp_abs(st.m[a], st.m[b]) < 0 THEN Leave(sr, DivLocals, {})
           ELSE Leave(DivR(DivQ(DivLong(s1, a, b), q, a, b), r, a, k),
                      DivLocals, DivLocals))

mpi_div_int(st, q, r, a, z) ==
    Leave(mpi_div_mpi(Put(mpi_init(st, {"div._B"}), "div._B", OfInt(z)), q, r, a, "div._B"),
          {"div._B"}, {"div._B"})

RECURSIVE AddWhileNegative(_, _, _)
AddWhileNegative(st, r, b) ==
    IF st.ret # 0 \/ mpi_cmp_int(st.m[r], 0) >= 0 THEN st
    ELSE AddWhileNegative(mpi_add_mpi(st, r, r, b), r, b)

RECURSIVE SubWhileNotLess(_, _, _)
SubWhileNotLess(st, r, b) ==
    IF st.ret # 0 \/ mpi_cmp_mpi(st.m[r], st.m[b]) < 0 THEN st
    ELSE SubWhileNotLess(mpi_sub_mpi(st, r, r, b), r, b)

mpi_mod_mpi(st, r, a, b) ==
    Chk(st, IF mpi_cmp_int(st.m[b], 0) < 0 THEN Fail(st, NEGATIVE_VALUE)
            ELSE SubWhileNotLess(AddWhileNegative(
                     mpi_div_mpi(st, "NULL", r, a, b), r, b), r, b))

(* mod_int: the remainder, half a limb at a time; [ret, r]. *)
RECURSIVE ModHalves(_, _, _, _)
ModHalves(p, i, y, z) ==
    IF i = 0 THEN y
    ELSE LET y1 == (((y * Half) % Base) + p[i] \div Half) % z
             y2 == (((y1 * Half) % Base) + (p[i] % Half)) % z
         IN ModHalves(p, i - 1, y2, z)

mpi_mod_int(A, z) ==
    LET y == ModHalves(A.p, Len(A.p), 0, z)
    IN IF z = 0 THEN [ret |-> DIVISION_BY_ZERO, r |-> 0]
       ELSE IF z < 0 THEN [ret |-> NEGATIVE_VALUE, r |-> 0]
       ELSE IF z = 1 THEN [ret |-> 0, r |-> 0]
       ELSE IF z = 2 THEN [ret |-> 0, r |-> A.p[1] % 2]
       ELSE [ret |-> 0, r |-> IF A.s < 0 /\ y # 0 THEN z - y ELSE y]

-----------------------------------------------------------------------------
(* Montgomery exponentiation. *)

(* mpi_montg_init(): -1/N mod Base by Newton's iteration, doubling the 4 *)
(* correct bits it starts from.                                          *)
RECURSIVE Newton(_, _, _)
Newton(m0, x, i) ==
    IF i < 8 THEN x
    ELSE Newton(m0, (x * ((2 - m0 * x) % Base)) % Base, i \div 2)

(* A mutation: the starting value is right in 3 bits only. *)
mpi_montg_initShort(N) == (-Newton(N.p[1], N.p[1], biL)) % Base

mpi_montg_init(N) ==
    LET m0 == N.p[1]
        x0 == (m0 + 2 * (((m0 + 2) \div 4) % 2) * 4) % Base
    IN (-Newton(m0, x0, biL)) % Base

(* The n rounds of montmul: T = (T + u0 * B + u1 * N) / Base, T shifted by *)
(* moving the pointer d up one limb a round.                               *)
RECURSIVE MontRounds(_, _, _, _, _, _)
MontRounds(A, B, N, mm, T, i) ==
    LET n == Len(N)
        m == IF Len(B) < n THEN Len(B) ELSE n
        u1 == (((T[i + 1] + A[i + 1] * B[1]) % Base) * mm) % Base
        T1 == mpi_mul_hlp(m, B, T, i, A[i + 1], 1, 0)
        T2 == mpi_mul_hlp(n, N, T1, i, u1, 1, 0)
    IN IF i = n THEN T
       ELSE MontRounds(A, B, N, mm,
                       [T2 EXCEPT ![i + 1] = A[i + 1], ![i + n + 3] = 0], i + 1)

mpi_montmul(st, a, b, nn, mm, t) ==
    LET N == st.m[nn].p
        n == Len(N)
        T0 == Zeros(Len(st.m[t].p))
        Result(T) == SubSeq(T, n + 1, 2 * n + 1)
                     \o SubSeq(st.m[a].p, n + 2, Len(st.m[a].p))
        Reduce(T, A) ==
            IF mpi_cmp_abs([s |-> 1, p |-> A], [s |-> 1, p |-> N]) < 0
            THEN [st EXCEPT !.m[a].p = A, !.m[t].p = mpi_sub_hlp(n, A, T, 1, 0)]
            ELSE [st EXCEPT !.m[a].p = mpi_sub_hlp(n, N, A, 1, 0), !.m[t].p = T]
        Finish(T) == Reduce(T, Result(T))
    IN Chk(st, IF Len(st.m[t].p) < n + 1 THEN Fail(st, BAD_INPUT_DATA)
               ELSE Finish(MontRounds(st.m[a].p, st.m[b].p, N, mm, T0, 0)))

mpi_montred(st, a, nn, mm, t) ==
    Leave(mpi_montmul(Put(mpi_init(st, {"U"}), "U", OfInt(1)), a, "U", nn, mm, t),
          {"U"}, {"U"})

ERR == "exp.RR"
ET == "exp.T"
EApos == "exp.Apos"
EW(i) == <<"exp.W0", "exp.W1", "exp.W2", "exp.W3", "exp.W4", "exp.W5", "exp.W6",
           "exp.W7", "exp.W8", "exp.W9", "exp.W10", "exp.W11", "exp.W12",
           "exp.W13", "exp.W14", "exp.W15">>[i + 1]

WSize(bits) ==
    LET c == Cardinality({k \in DOMAIN WindowBits : bits > WindowBits[k]})
        w == IF c = 0 THEN 1 ELSE c + 2
    IN IF w > WindowSize THEN WindowSize ELSE w

ExpLocals(w) == {ERR, ET, EApos, EW(1)} \cup {EW(i) : i \in 2^(w - 1)..(2^w - 1)}

RECURSIVE Square(_, _, _, _, _)
Square(st, x, nn, mm, times) ==
    IF times = 0 THEN st
    ELSE Square(mpi_montmul(st, x, x, nn, mm, ET), x, nn, mm, times - 1)

(* W[i] = W[i - 1] * W[1] for the odd and even powers of one window. *)
RECURSIVE FillWindow(_, _, _, _, _)
FillWindow(st, nn, mm, i, end) ==
    IF i > end THEN st
    ELSE LET s == mpi_copy(mpi_grow(st, EW(i), Len(st.m[nn].p) + 1), EW(i), EW(i - 1))
         IN FillWindow(mpi_montmul(s, EW(i), EW(1), nn, mm, ET), nn, mm, i + 1, end)

Window(st, nn, mm, w) ==
    LET j == 2^(w - 1)
        s == mpi_copy(mpi_grow(st, EW(j), Len(st.m[nn].p) + 1), EW(j), EW(1))
    IN IF w = 1 THEN st
       ELSE FillWindow(Square(s, EW(j), nn, mm, w - 1), nn, mm, j + 1, 2^w - 1)

(* The bits left in an unfinished window. *)
RECURSIVE ExpTail(_, _, _, _, _, _, _)
ExpTail(st, x, nn, mm, w, nbits, wbits) ==
    LET top == ((2 * wbits) \div 2^w) % 2
        Times(s) == IF top = 1 THEN mpi_montmul(s, x, EW(1), nn, mm, ET) ELSE s
    IN IF nbits = 0 THEN st
       ELSE ExpTail(Times(Square(st, x, nn, mm, 1)),
                    x, nn, mm, w, nbits - 1, 2 * wbits)

(* The sliding window over the bits pos..1 of E; state is 0 before the first *)
(* 1 bit, 1 between windows, 2 inside one.                                   *)
RECURSIVE ExpBits(_, _, _, _, _, _, _, _, _, _)
ExpBits(st, x, nn, mm, E, w, pos, state, nbits, wbits) ==
    LET ei == mpi_get_bit(E, pos - 1)
        wb == wbits + ei * 2^(w - nbits - 1)
    IN IF st.ret # 0 \/ pos = 0 THEN ExpTail(st, x, nn, mm, w, nbits, wbits)
       ELSE IF ei = 0 /\ state = 0
       THEN ExpBits(st, x, nn, mm, E, w, pos - 1, 0, nbits, wbits)
       ELSE IF ei = 0 /\ state = 1
       THEN ExpBits(Square(st, x, nn, mm, 1), x, nn, mm, E, w, pos - 1, 1, nbits, wbits)
       ELSE IF nbits + 1 < w
       THEN ExpBits(st, x, nn, mm, E, w, pos - 1, 2, nbits + 1, wb)
       ELSE ExpBits(mpi_montmul(Square(st, x, nn, mm, w), x, EW(wb), nn, mm, ET),
                    x, nn, mm, E, w, pos - 1, 1, 0, 0)

(* R^2 mod N: computed once and left in *_RR, or taken from there. *)
ExpRR(st, nn, rr) ==
    LET s1 == mpi_shift_l(mpi_lset(st, ERR, 1), ERR, 2 * Len(st.m[nn].p) * biL)
    IN IF st.ret # 0 THEN st
       ELSE IF rr # "NULL" /\ st.m[rr].p # <<>> THEN Put(st, ERR, st.m[rr])
       ELSE Then(mpi_mod_mpi(s1, ERR, ERR, nn), LAMBDA s :
                 IF rr = "NULL" THEN s ELSE Put(s, rr, s.m[ERR]))

ExpBody(st, x, a0, e, nn, rr, w) ==
    LET mm == mpi_montg_init(st.m[nn])
        j == Len(st.m[nn].p) + 1
        E == st.m[e]
        neg == st.m[a0].s = -1
        a == IF neg THEN EApos ELSE a0
        s1 == mpi_grow(mpi_grow(mpi_grow(st, x, j), EW(1), j), ET, 2 * j)
        s2 == IF neg THEN PutSign(mpi_copy(s1, EApos, a0), EApos, 1) ELSE s1
        Base1(s) == IF mpi_cmp_mpi(s.m[a], s.m[nn]) >= 0
                    THEN mpi_mod_mpi(s, EW(1), a, nn) ELSE mpi_copy(s, EW(1), a)
        s3 == mpi_montmul(Then(ExpRR(s2, nn, rr), Base1), EW(1), ERR, nn, mm, ET)
        s4 == Window(mpi_montred(mpi_copy(s3, x, ERR), x, nn, mm, ET), nn, mm, w)
        s5 == ExpBits(s4, x, nn, mm, E, w, Len(E.p) * biL, 0, 0, 0)
        Correction(s) == IF neg /\ E.p # <<>> /\ OddLimb(E)
                         THEN mpi_add_mpi(PutSign(s, x, -1), x, nn, x) ELSE s
    IN Then(mpi_montred(s5, x, nn, mm, ET), Correction)

(* RR is freed, or owned by *_RR from now on: either way it is not a leak. *)
mpi_exp_mod(st, x, a, e, nn, rr) ==
    LET N == st.m[nn]
        w == WSize(mpi_bitlen(st.m[e]))
        s == mpi_init([st EXCEPT !.fuel = @ - 1], ExpLocals(w))
    IN Chk(st, IF st.fuel = 0 THEN Fail(st, ALLOC_FAILED)
               ELSE IF \/ mpi_cmp_int(N, 0) < 0 \/ N.p[1] % 2 = 0
                       \/ mpi_cmp_int(st.m[e], 0) < 0
               THEN Fail(st, BAD_INPUT_DATA)
               ELSE Leave(ExpBody(s, x, a, e, nn, rr, w), ExpLocals(w), ExpLocals(w)))

-----------------------------------------------------------------------------
(* Greatest common divisor and modular inverse. *)

RECURSIVE GcdLoop(_)
GcdLoop(st) ==
    LET Odd(s, t) == mpi_shift_r(s, t, mpi_lsb(s.m[t]))
        Reduce(s, u, v) == mpi_shift_r(mpi_sub_abs(s, u, u, v), u, 1)
        Step(s) == IF mpi_cmp_mpi(s.m["gcd.TA"], s.m["gcd.TB"]) >= 0
                   THEN Reduce(s, "gcd.TA", "gcd.TB")
                   ELSE Reduce(s, "gcd.TB", "gcd.TA")
    IN IF st.ret # 0 \/ mpi_cmp_int(st.m["gcd.TA"], 0) = 0 THEN st
       ELSE GcdLoop(Then(Odd(Odd(st, "gcd.TA"), "gcd.TB"), Step))

mpi_gcd(st, g, a, b) ==
    LET T == {"gcd.TA", "gcd.TB"}
        la == mpi_lsb(st.m[a])
        lb == mpi_lsb(st.m[b])
        lz == IF lb < la THEN lb ELSE la
        s1 == mpi_copy(mpi_copy(mpi_init(st, T), "gcd.TA", a), "gcd.TB", b)
        s2 == mpi_shift_r(mpi_shift_r(s1, "gcd.TA", lz), "gcd.TB", lz)
        s3 == GcdLoop(PutSign(PutSign(s2, "gcd.TA", 1), "gcd.TB", 1))
    IN Chk(st, Leave(mpi_copy(mpi_shift_l(s3, "gcd.TB", lz), g, "gcd.TB"), T, T))

(* Halve t, and with it the pair u1, u2, kept even by adding TB and -TA. *)
RECURSIVE HalveWhileEven(_, _, _, _)
HalveWhileEven(st, t, u1, u2) ==
    LET Even(s) == IF OddLimb(s.m[u1]) \/ OddLimb(s.m[u2])
                   THEN mpi_sub_mpi(mpi_add_mpi(s, u1, u1, "inv.TB"), u2, u2, "inv.TA")
                   ELSE s
        Halve(s) == mpi_shift_r(mpi_shift_r(Even(s), u1, 1), u2, 1)
    IN IF st.ret # 0 \/ OddLimb(st.m[t]) THEN st
       ELSE HalveWhileEven(Then(mpi_shift_r(st, t, 1), Halve), t, u1, u2)

Sub3(st, t, u1, u2, v, v1, v2) ==
    mpi_sub_mpi(mpi_sub_mpi(mpi_sub_mpi(st, t, t, v), u1, u1, v1), u2, u2, v2)

RECURSIVE InvLoop(_)
InvLoop(st) ==
    LET s1 == HalveWhileEven(HalveWhileEven(st, "inv.TU", "inv.U1", "inv.U2"),
                             "inv.TV", "inv.V1", "inv.V2")
        Step(s) == IF mpi_cmp_mpi(s.m["inv.TU"], s.m["inv.TV"]) >= 0
              THEN Sub3(s, "inv.TU", "inv.U1", "inv.U2", "inv.TV", "inv.V1", "inv.V2")
              ELSE Sub3(s, "inv.TV", "inv.V1", "inv.V2", "inv.TU", "inv.U1", "inv.U2")
    IN Then(Then(s1, Step), LAMBDA s :
            IF mpi_cmp_int(s.m["inv.TU"], 0) = 0 THEN s ELSE InvLoop(s))

InvLocals == {"inv.G", "inv.TA", "inv.TU", "inv.U1", "inv.U2",
              "inv.TB", "inv.TV", "inv.V1", "inv.V2"}

InvStart(st, a, nn) ==
    LET s1 == mpi_copy(mpi_mod_mpi(st, "inv.TA", a, nn), "inv.TU", "inv.TA")
        s2 == mpi_copy(mpi_copy(s1, "inv.TB", nn), "inv.TV", nn)
        s3 == mpi_lset(mpi_lset(s2, "inv.U1", 1), "inv.U2", 0)
    IN mpi_lset(mpi_lset(s3, "inv.V1", 0), "inv.V2", 1)

mpi_inv_mod(st, x, a, nn) ==
    LET Begin(s) == IF mpi_cmp_int(s.m["inv.G"], 1) # 0 THEN Fail(s, NOT_ACCEPTABLE)
                    ELSE InvStart(s, a, nn)
        s1 == Then(mpi_gcd(mpi_init(st, InvLocals), "inv.G", a, nn), Begin)
        s2 == AddWhileNegative(Then(s1, InvLoop), "inv.V1", nn)
    IN Chk(st, IF mpi_cmp_int(st.m[nn], 1) <= 0 THEN Fail(st, BAD_INPUT_DATA)
               ELSE Leave(mpi_copy(SubWhileNotLess(s2, "inv.V1", nn), x, "inv.V1"),
                          InvLocals, InvLocals))

-----------------------------------------------------------------------------
(* Strings and bytes.  A character is its digit value, Minus, or a value no *)
(* radix accepts; a string or buffer is a sequence of them.                 *)
Minus == -1

mpi_get_digit(radix, c) == IF c \in 0..(radix - 1) THEN 0 ELSE INVALID_CHARACTER

(* Digit or byte j of a number of width bits each, or-ed into its limb. *)
OrInto(p, j, width, d) ==
    LET per == biL \div width
    IN [p EXCEPT ![j \div per + 1] = @ + d * 2^((j % per) * width)]

RECURSIVE ReadHex(_, _, _, _)
ReadHex(st, x, str, i) ==
    LET c == str[i] IN
    IF st.ret # 0 \/ i = 0 THEN st
    ELSE IF i = 1 /\ c = Minus THEN PutSign(st, x, -1)
    ELSE IF mpi_get_digit(HexRadix, c) # 0 THEN Fail(st, INVALID_CHARACTER)
    ELSE ReadHex([st EXCEPT !.m[x].p = OrInto(@, Len(str) - i, HexBits, c)], x, str, i - 1)

RECURSIVE ReadDigits(_, _, _, _, _)
ReadDigits(st, x, radix, str, i) ==
    LET c == str[i]
        AddDigit(s) == IF s.m[x].s = 1 THEN mpi_add_int(s, x, "str.T", c)
                                       ELSE mpi_sub_int(s, x, "str.T", c)
    IN IF st.ret # 0 \/ i > Len(str) THEN st
       ELSE IF i = 1 /\ c = Minus
       THEN ReadDigits(PutSign(st, x, -1), x, radix, str, 2)
       ELSE IF mpi_get_digit(radix, c) # 0 THEN Fail(st, INVALID_CHARACTER)
       ELSE ReadDigits(Then(mpi_mul_int(st, "str.T", x, radix), AddDigit),
                       x, radix, str, i + 1)

mpi_read_string(st, x, radix, str) ==
    LET T == {"str.T"}
        s1 == mpi_init(st, T)
        hex == mpi_lset(mpi_grow(s1, x, BITS_TO_LIMBS(Len(str) * HexBits)), x, 0)
    IN IF radix \notin 2..MaxRadix THEN Fail(st, BAD_INPUT_DATA)
       ELSE Leave(IF radix = HexRadix THEN ReadHex(hex, x, str, Len(str))
                  ELSE ReadDigits(mpi_lset(s1, x, 0), x, radix, str, 1), T, T)

(* One more digit behind those of the recursive call. *)
WriteDigit(w, r) == IF w.st.ret # 0 THEN w ELSE [w EXCEPT !.out = Append(@, r)]
WriteRest(st, x, radix, Rec(_, _, _)) ==
    IF st.ret # 0 \/ mpi_cmp_int(st.m[x], 0) = 0 THEN [st |-> st, out |-> <<>>]
    ELSE Rec(st, x, radix)

(* mpi_write_hlp(): the digits of x, most significant first; [st, out]. *)
RECURSIVE mpi_write_hlp(_, _, _)
mpi_write_hlp(st, x, radix) ==
    LET r == mpi_mod_int(st.m[x], radix).r
    IN WriteDigit(WriteRest(mpi_div_int(st, x, "NULL", x, radix), x, radix,
                            mpi_write_hlp), r)

(* The hexadecimal digits: every byte from the first that is not 0, two *)
(* digits a byte, and one byte 00 for zero.                             *)
HexString(X) ==
    LET Byte(j) == (X.p[j \div CiL + 1] \div 2^((j % CiL) * ByteBits)) % 2^ByteBits
        n == Len(X.p) * CiL
        top == {j \in 0..(n - 1) : \A i \in (j + 1)..(n - 1) : Byte(i) = 0}
        first == CHOOSE j \in top : Byte(j) # 0 \/ j = 0
        k == ByteBits \div HexBits
    IN IF n = 0 THEN <<>>
       ELSE [i \in 1..((first + 1) * k) |->
               LET d == (first + 1) * k - i
               IN (Byte(d \div k) \div 2^((d % k) * HexBits)) % HexRadix]

WriteDigits(st, radix) ==
    IF st.ret # 0 THEN [st |-> st, out |-> <<>>] ELSE mpi_write_hlp(st, "str.T", radix)

WrittenString(w, sign) ==
    [st |-> Leave(w.st, {"str.T"}, {"str.T"}), out |-> sign \o w.out,
     olen |-> Len(sign) + Len(w.out) + 1]

(* [st, out, olen]: olen is the size needed, or the size written with the 0. *)
mpi_write_string(st, x, radix, buflen) ==
    LET X == st.m[x]
        bits == mpi_bitlen(X)
        n0 == IF radix = HexRadix THEN bits \div HexBits
              ELSE IF radix >= 4 THEN bits \div 2 ELSE bits
        n == n0 + 3 + ((n0 + 1) % 2)
        s1 == mpi_init(st, {"str.T"})
        w == IF radix = HexRadix THEN [st |-> s1, out |-> HexString(X)]
             ELSE WriteDigits(PutSign(mpi_copy(s1, "str.T", x), "str.T", 1), radix)
    IN IF radix \notin 2..MaxRadix
       THEN [st |-> Fail(st, BAD_INPUT_DATA), out |-> <<>>, olen |-> 0]
       ELSE IF buflen < n
       THEN [st |-> Fail(st, BUFFER_TOO_SMALL), out |-> <<>>, olen |-> n]
       ELSE WrittenString(w, IF X.s = -1 THEN <<Minus>> ELSE <<>>)

RECURSIVE ReadBytes(_, _, _, _)
ReadBytes(p, buf, i, n) ==
    IF i <= n THEN p
    ELSE ReadBytes(OrInto(p, Len(buf) - i, ByteBits, buf[i]), buf, i - 1, n)

mpi_read_binary(st, x, buf) ==
    LET lead == {n \in 0..Len(buf) : \A i \in 1..n : buf[i] = 0}
        n == CHOOSE k \in lead : \A j \in lead : j <= k
    IN Then(mpi_lset(mpi_grow(st, x, CHARS_TO_LIMBS(Len(buf) - n)), x, 0), LAMBDA s :
            [s EXCEPT !.m[x].p = ReadBytes(@, buf, Len(buf), n)])

(* [ret, buf] *)
mpi_write_binary(X, buflen) ==
    LET n == mpi_size(X)
        Byte(j) == (X.p[j \div CiL + 1] \div 2^((j % CiL) * ByteBits)) % 2^ByteBits
    IN IF buflen < n THEN [ret |-> BUFFER_TOO_SMALL, buf |-> <<>>]
       ELSE [ret |-> 0, buf |-> [i \in 1..buflen |->
               IF buflen - i < n THEN Byte(buflen - i) ELSE 0]]

(* fill_random with the bytes f_rng produced, or its error. *)
mpi_fill_random(st, x, bytes, rng, maxSize) ==
    IF Len(bytes) > maxSize THEN Fail(st, BAD_INPUT_DATA)
    ELSE IF rng # 0 THEN Fail(st, rng)
    ELSE mpi_read_binary(st, x, bytes)
=============================================================================
