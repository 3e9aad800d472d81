------------------------------ MODULE MpiCalls ------------------------------
(***************************************************************************)
(* A caller of Bignum: objects X, A and B, passed to the functions in      *)
(* every aliasing the code supports, with every point where an allocation  *)
(* may fail.  call records the last call and the objects before it.        *)
(***************************************************************************)
EXTENDS Bignum

CONSTANTS SeedsA,       \* the numbers A
          SeedsB,       \* and B start with
          Dirty,        \* what the destination X may hold before
          Exponents, Ints, Shifts,
          Strings, Buffers, MaxSize,
          Budgets,      \* allocations that succeed in one call
          MaxCalls      \* calls in one behaviour

VARIABLES obj, call
mpiVars == <<obj, call>>

(* The integer an object stands for. *)
RECURSIVE Magnitude(_)
Magnitude(p) == IF p = <<>> THEN 0 ELSE Head(p) + Base * Magnitude(Tail(p))
Val(X) == X.s * Magnitude(X.p)

Objs == {"X", "A", "B"}
NoCall == [op |-> "none", n |-> 0]

MpiInit ==
    /\ obj \in [X : Dirty, A : SeedsA, B : SeedsB]
    /\ call = NoCall

Ready == call.n < MaxCalls
Start(f) == [ret |-> 0, m |-> obj, fuel |-> f]

(* The end of a call: its arguments, what it left alive and returned. *)
Return(op, x, a, b, k, f, st, out) ==
    /\ obj' = [o \in Objs |-> st.m[o]]
    /\ call' = [op |-> op, n |-> call.n + 1, x |-> x, a |-> a, b |-> b, k |-> k,
                fuel |-> f, left |-> DOMAIN st.m, before |-> obj,
                ret |-> st.ret, out |-> out]

-----------------------------------------------------------------------------
(* X = A op B, where X may be one of the operands and A may be B. *)

Operands == {<<"A", "B">>, <<"B", "A">>, <<"A", "A">>}

mpi_arith(op, x, a, b, f) ==
    /\ Ready
    /\ Return(op, x, a, b, 0, f,
              CASE op = "add_abs" -> mpi_add_abs(Start(f), x, a, b)
                [] op = "sub_abs" -> mpi_sub_abs(Start(f), x, a, b)
                [] op = "add" -> mpi_add_mpi(Start(f), x, a, b)
                [] op = "sub" -> mpi_sub_mpi(Start(f), x, a, b)
                [] op = "mul" -> mpi_mul_mpi(Start(f), x, a, b)
                [] op = "gcd" -> mpi_gcd(Start(f), x, a, b)
                [] op = "inv" -> mpi_inv_mod(Start(f), x, a, b), 0)

(* div: a quotient that is A itself gets the sign of what it was set to, so  *)
(* the callers only do that with A >= 0 and no remainder (mpi_write_hlp).    *)
(* mod: R may be A; were it B, the reduction loop would not end.             *)
mpi_divide(q, r, a, b, f) ==
    /\ Ready
    /\ q # b /\ r # b
    /\ q = a => obj[a].s = 1 /\ r = "NULL"
    /\ Return("div", q, a, b, 0, f, mpi_div_mpi(Start(f), q, r, a, b), r)

mpi_modulo(r, a, b, f) ==
    /\ Ready /\ r # b
    /\ Return("mod", r, a, b, 0, f, mpi_mod_mpi(Start(f), r, a, b), 0)

(* X = A op z for a one-limb integer z. *)
mpi_arith_int(op, x, a, z, f) ==
    /\ Ready
    /\ op = "mul_int" => z >= 0
    /\ op = "div_int" => x # a \/ obj[a].s = 1
    /\ Return(op, x, a, a, z, f,
              CASE op = "add_int" -> mpi_add_int(Start(f), x, a, z)
                [] op = "sub_int" -> mpi_sub_int(Start(f), x, a, z)
                [] op = "mul_int" -> mpi_mul_int(Start(f), x, a, z)
                [] op = "div_int" -> mpi_div_int(Start(f), x, "NULL", a, z), 0)

(* mod_int reads limb 0 for z = 2: never on an object without limbs.  Its  *)
(* half-limb steps need z to fit in half a limb.                           *)
mpi_modulo_int(a, z) ==
    /\ Ready
    /\ obj[a].p # <<>> /\ z <= Half
    /\ LET r == mpi_mod_int(obj[a], z)
       IN Return("mod_int", a, a, a, z, 0, [Start(0) EXCEPT !.ret = r.ret], r.r)

(* exp_mod: X may be A; N and A have limbs; R is the caller's _RR, empty or  *)
(* left by an earlier call with the same N.                                  *)
RRValues(N) ==
    LET n == Len(N.p)
        v == 2^(2 * biL * n) % Val(N)
    IN {Fresh} \cup (IF Val(N) <= 0 THEN {} ELSE
         {[s |-> 1, p |-> [i \in 1..n |-> (v \div Base^(i - 1)) % Base]]})

mpi_power(x, a, E, nn, f) ==
    /\ Ready /\ x # nn
    /\ obj[nn].p # <<>> /\ obj[a].p # <<>>
    /\ \E R \in RRValues(obj[nn]) :
         LET m == [o \in Objs \cup {"E", "R"} |->
                     IF o = "E" THEN E ELSE IF o = "R" THEN R ELSE obj[o]]
             Answer(s) == Return("exp", x, a, nn, E, f,
                                 Leave(s, {"E", "R"}, {"E", "R"}), s.m["R"])
         IN Answer(mpi_exp_mod([Start(f) EXCEPT !.m = m], x, a, "E", nn, "R"))

-----------------------------------------------------------------------------
(* One object. *)

mpi_unary(op, x, k, f) ==
    /\ Ready
    /\ Return(op, x, x, x, k, f,
              CASE op = "shift_l" -> mpi_shift_l(Start(f), x, k)
                [] op = "shift_r" -> mpi_shift_r(Start(f), x, k)
                [] op = "set_bit" -> mpi_set_bit(Start(f), x, k, 1)
                [] op = "clear_bit" -> mpi_set_bit(Start(f), x, k, 0)
                [] op = "grow" -> mpi_grow(Start(f), x, k)
                [] op = "shrink" -> mpi_shrink(Start(f), x, k)
                [] op = "lset" -> mpi_lset(Start(f), x, k)
                [] op = "free" -> mpi_free(Start(f), x), 0)

mpi_move(op, x, y, k, f) ==
    /\ Ready
    /\ Return(op, x, y, y, k, f,
              CASE op = "copy" -> mpi_copy(Start(f), x, y)
                [] op = "swap" -> mpi_swap(Start(f), x, y)
                [] op = "cond_assign" -> mpi_safe_cond_assign(Start(f), x, y, k)
                [] op = "cond_swap" -> mpi_safe_cond_swap(Start(f), x, y, k), 0)

(* The questions: <<cmp_mpi, cmp_abs, cmp_int, bitlen, lsb, size, get_bit>>. *)
mpi_query(a, b, k) ==
    /\ Ready
    /\ Return("query", a, a, b, k, 0, Start(0),
              <<mpi_cmp_mpi(obj[a], obj[b]), mpi_cmp_abs(obj[a], obj[b]),
                mpi_cmp_int(obj[a], k - 2), mpi_bitlen(obj[a]), mpi_lsb(obj[a]),
                mpi_size(obj[a]), mpi_get_bit(obj[a], k)>>)

(* Out as a string or bytes and back in, into X. *)
mpi_string(a, radix, buflen, f) ==
    LET Back(w) == Return("string", "X", a, a, buflen, f,
                          Chk(w.st, mpi_read_string(w.st, "X", radix, w.out)), w.olen)
    IN /\ Ready /\ obj[a].p # <<>>
       /\ Back(mpi_write_string(Start(f), a, radix, buflen))

mpi_binary(a, buflen, f) ==
    LET Back(w) == Return("binary", "X", a, a, buflen, f,
                          Chk([Start(f) EXCEPT !.ret = w.ret],
                              mpi_read_binary(Start(f), "X", w.buf)), w.buf)
    IN Ready /\ Back(mpi_write_binary(obj[a], buflen))

mpi_random(bytes, rng, f) ==
    /\ Ready
    /\ Return("random", "X", "X", "X", bytes, f,
              mpi_fill_random(Start(f), "X", bytes, rng, MaxSize), rng)

mpi_scan(str, radix, f) ==
    /\ Ready
    /\ Return("scan", "X", "X", "X", str, f,
              mpi_read_string(Start(f), "X", radix, str), radix)

-----------------------------------------------------------------------------
MpiNext ==
    \/ \E f \in Budgets :
         \/ \E op \in {"add_abs", "sub_abs", "add", "sub", "mul", "gcd", "inv"} :
              \E x \in Objs, o \in Operands : mpi_arith(op, x, o[1], o[2], f)
         \/ \E q, r \in {"X", "A", "NULL"} : q # r /\ mpi_divide(q, r, "A", "B", f)
         \/ \E r \in {"X", "A"} : mpi_modulo(r, "A", "B", f)
         \/ \E op \in {"add_int", "sub_int", "mul_int", "div_int"} :
              \E x \in {"X", "A"}, z \in Ints : mpi_arith_int(op, x, "A", z, f)
         \/ \E x \in {"X", "A"}, E \in Exponents : mpi_power(x, "A", E, "B", f)
         \/ \E op \in {"shift_l", "shift_r", "set_bit", "clear_bit", "grow",
                       "shrink", "lset", "free"} :
              \E k \in Shifts : mpi_unary(op, "A", k, f)
         \/ \E op \in {"copy", "swap", "cond_assign", "cond_swap"} :
              \E x \in {"A", "B"}, k \in {0, 1} : mpi_move(op, x, "A", k, f)
         \/ \E radix \in 1..(MaxRadix + 1), len \in Buffers :
              mpi_string("A", radix, len, f)
         \/ \E len \in Buffers : mpi_binary("A", len, f)
         \/ \E len \in 0..(MaxSize + 1), rng \in {0, -1} :
              mpi_random([i \in 1..len |-> (2 * i - 1) % 2^ByteBits], rng, f)
         \/ \E radix \in {HexRadix, MaxRadix}, str \in Strings : mpi_scan(str, radix, f)
    \/ \E z \in Ints : mpi_modulo_int("A", z)
    \/ \E k \in Shifts : mpi_query("A", "B", k)

-----------------------------------------------------------------------------
(* Integer arithmetic to compare with. *)
RECURSIVE Gcd(_, _)
Gcd(a, b) == IF b = 0 THEN a ELSE Gcd(b, a % b)

RECURSIVE PowMod(_, _, _)
PowMod(a, e, n) ==
    IF e = 0 THEN 1 % n ELSE (PowMod(a, e - 1, n) * (a % n)) % n

Quot(a, b) == Sgn(a) * Sgn(b) * (Abs(a) \div Abs(b))
Cmp(a, b) == IF a > b THEN 1 ELSE IF a < b THEN -1 ELSE 0
BitLength(v) == CHOOSE k \in 0..(MaxLimbs * biL) : v < 2^k /\ (k = 0 \/ v >= 2^(k - 1))
TrailingZeros(v) ==
    IF v = 0 THEN 0 ELSE CHOOSE k \in 0..(MaxLimbs * biL) : v % 2^k = 0 /\ v % 2^(k + 1) # 0

Before(o) == Val(call.before[o])
Now(o) == Val(obj[o])
Called(op) == call.n > 0 /\ call.op = op
Succeeded(op) == Called(op) /\ call.ret = 0
Ample == \A f \in Budgets : f <= call.fuel

(***************************************************************************)
(* Arithmetic is that of the integers: whatever the limbs, the zero limbs  *)
(* above them, the sign of a zero, and the objects that share a role, a    *)
(* call that returns 0 leaves the mathematical result; a comparison        *)
(* answers it; digits and bytes read back give the number they were        *)
(* written from, within the buffer that the size check accepted.           *)
(***************************************************************************)
MpiExact ==
    /\ Succeeded("add_abs") => Now(call.x) = Abs(Before(call.a)) + Abs(Before(call.b))
    /\ Succeeded("sub_abs") => Now(call.x) = Abs(Before(call.a)) - Abs(Before(call.b))
    /\ Succeeded("add") => Now(call.x) = Before(call.a) + Before(call.b)
    /\ Succeeded("sub") => Now(call.x) = Before(call.a) - Before(call.b)
    /\ Succeeded("mul") => Now(call.x) = Before(call.a) * Before(call.b)
    /\ Succeeded("add_int") => Now(call.x) = Before(call.a) + call.k
    /\ Succeeded("sub_int") => Now(call.x) = Before(call.a) - call.k
    /\ Succeeded("mul_int") => Now(call.x) = Before(call.a) * call.k
    /\ Succeeded("div_int") => Now(call.x) = Quot(Before(call.a), call.k)
    /\ Succeeded("div") =>
         LET q == Quot(Before(call.a), Before(call.b))
         IN /\ call.x # "NULL" => Now(call.x) = q
            /\ call.out # "NULL" => Now(call.out) = Before(call.a) - q * Before(call.b)
    /\ Succeeded("mod") => Now(call.x) = Before(call.a) % Before(call.b)
    /\ Succeeded("mod_int") => call.out = Before(call.a) % call.k
    /\ Succeeded("shift_l") => Now(call.x) = Before(call.x) * 2^call.k
    /\ Succeeded("shift_r") => Abs(Now(call.x)) = Abs(Before(call.x)) \div 2^call.k
    /\ Succeeded("query") =>
         LET a == Before(call.a)
             b == Before(call.b)
         IN call.out = <<Cmp(a, b), Cmp(Abs(a), Abs(b)), Cmp(a, call.k - 2),
                         BitLength(Abs(a)), TrailingZeros(Abs(a)),
                         (BitLength(Abs(a)) + ByteBits - 1) \div ByteBits,
                         (Abs(a) \div 2^call.k) % 2>>
    /\ Succeeded("string") => Now("X") = Before(call.a) /\ call.out <= call.k
    /\ Succeeded("binary") => Now("X") = Abs(Before(call.a))

(***************************************************************************)
(* The number theory on top: gcd, inverse and the sliding-window power are *)
(* right, with ample memory the inverse is refused exactly when there is   *)
(* none, and the _RR a caller keeps is R^2 mod N, so reusing it is as good *)
(* as computing it.  (gcd(A, 0) is left out: the loop shifts A away and    *)
(* answers 0.  A negative base whose power is 0 mod N answers N, hence the *)
(* congruence.)                                                            *)
(***************************************************************************)
MpiNumberTheory ==
    /\ Succeeded("gcd") /\ Before(call.b) # 0 =>
         Now(call.x) = Gcd(Abs(Before(call.a)), Abs(Before(call.b)))
    /\ Called("inv") /\ Ample =>
         (call.ret = 0 <=> /\ Before(call.b) > 1
                           /\ Gcd(Abs(Before(call.a)), Before(call.b)) = 1)
    /\ Succeeded("inv") =>
         /\ Now(call.x) \in 0..(Before(call.b) - 1)
         /\ (Now(call.x) * (Before(call.a) % Before(call.b))) % Before(call.b) = 1
    /\ Succeeded("exp") =>
         LET n == Before(call.b)
         IN /\ Now(call.x) \in 0..n
            /\ Now(call.x) % n = PowMod(Before(call.a), Val(call.k), n)
            /\ Val(call.out) = 2^(2 * biL * Len(call.before[call.b].p)) % n

(***************************************************************************)
(* On every path, the early returns and each failed allocation included, a *)
(* call has freed its temporaries, has left every object a valid number    *)
(* and has not changed one that is not its result.                         *)
(***************************************************************************)
Written ==
    CASE call.op = "div" -> {call.x, call.out}
      [] call.op \in {"swap", "cond_swap"} -> {call.x, call.a}
      [] call.op \in {"query", "mod_int"} -> {}
      [] OTHER -> {call.x}

MpiOwnership ==
    call.n > 0 =>
        /\ call.left = Objs
        /\ \A o \in Objs : \A i \in DOMAIN obj[o].p : obj[o].p[i] \in 0..(Base - 1)
        /\ \A o \in Objs \ Written : obj[o] = call.before[o]

(* Numbers: every call of the bignum functions leaves the exact result in    *)
(* the object it is meant for, and all other objects and their memory as     *)
(* they were (bignum.c).                                                     *)
MpiArithmetic == MpiExact /\ MpiNumberTheory /\ MpiOwnership
=============================================================================
