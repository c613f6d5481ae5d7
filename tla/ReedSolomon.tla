----------------------------- MODULE ReedSolomon -----------------------------
(***************************************************************************)
(* The Reed-Solomon codec (src/codecs/rs.c) as the algorithm it is, over   *)
(* the field of 2^MM elements.  The code is compiled for MM = 8; nothing   *)
(* in it depends on the width.                                             *)
(*                                                                         *)
(* A polynomial of degree d is a function on 0..d.  In alpha-rep a         *)
(* coefficient is its logarithm, and INFINITY stands for 0.  A block is    *)
(* the symbols of one code word, the parity first: block[0..parity-1] is   *)
(* parity[], the rest data[].  The stride of interleaved blocks is left    *)
(* out.  A block is encoded, damaged, and decoded; the loops of the        *)
(* decoder are steps.                                                      *)
(***************************************************************************)
EXTENDS Integers, Sequences, FiniteSetsExt, Functions

CONSTANTS
  MM,         \* bits of a symbol
  FieldPoly,  \* the parameter of galois_field_init()
  CodeSizes,  \* values of n and k
  Symbols,    \* what the tape adds to a symbol it damages
  MaxErrors,  \* bound: symbols damaged
  MaxDamage   \* bound: symbols damaged, and locations given as erasures

ASSUME FieldAssumption ==
  /\ MM \in 2..16
  /\ FieldPoly \in (2^MM)..(2^(MM + 1) - 1)
  /\ CodeSizes \subseteq Nat \X Nat
  /\ Symbols \subseteq 1..(2^MM - 1)

NN       == 2^MM - 1
INFINITY == NN
Field    == 0..NN

J0       == 1
LOG_BETA == 1

(* The errors reed_solomon_decode() returns, negated (rs.h:18-20).         *)
RS_EDEGENERATEROOTS == 1
RS_EFORNEY          == 2
RS_EINVALIDROOT     == 3

(* modNN(): the remainder without a division.                              *)
modNN[x \in 0..(4 * NN * NN)] ==
  IF x >= NN THEN modNN[((x - NN) \div (NN + 1)) + ((x - NN) % (NN + 1))] ELSE x

Bit(x, i)   == (x \div 2^i) % 2
Mask(x)     == x % (NN + 1)
BitXor(x, y) == MapThenSumSet(LAMBDA i : 2^i * ((Bit(x, i) + Bit(y, i)) % 2), 0..(MM - 1))
XorTable    == [x, y \in Field |-> BitXor(x, y)]
Xor(x, y)   == XorTable[x, y]
XorSum(f(_), S) == FoldSet(LAMBDA i, sum : Xor(f(i), sum), 0, S)

(* galois_field_init(): the powers of alpha, twice over, and their         *)
(* logarithms.                                                             *)
Power[i \in 0..(NN - 1)] ==
  IF i < MM THEN 2^i
  ELSE IF i = MM THEN Mask(FieldPoly)
  ELSE LET last == Power[i - 1]
       IN  IF Bit(last, MM - 1) = 1 THEN BitXor(Mask(2 * last), Mask(FieldPoly))
           ELSE 2 * last

Alpha_exp == [i \in 0..(2 * NN - 1) |-> Power[i % NN]]
Log_alpha == [x \in Field |-> IF x = 0 THEN INFINITY
                              ELSE Max({i \in 0..(NN - 1) : Alpha_exp[i] = x})]

(* x times alpha^log, the product the code writes out everywhere.          *)
Times(x, log) == IF x = 0 THEN 0 ELSE Alpha_exp[Log_alpha[x] + log]

-----------------------------------------------------------------------------
(* Polynomials.                                                            *)
Zero(d) == [i \in 0..d |-> 0]

(* polynomial_to_alpha(): the degree, -1 for 0, and the logarithms.        *)
Degree(poly)  == Max({-1} \union {i \in DOMAIN poly : poly[i] # 0})
ToAlpha(poly) == [i \in DOMAIN poly |-> Log_alpha[poly[i]]]

(* polynomial_evaluate(): Horner's rule.                                   *)
Evaluate(poly, deg, log_x) ==
  LET horner[i \in 0..(deg + 1)] ==
        IF i = 0 THEN 0 ELSE Xor(Times(horner[i - 1], log_x), poly[deg + 1 - i])
  IN  horner[deg + 1]

(* log_polynomial_evaluate() of a polynomial in alpha-rep.                 *)
LogEvaluate(log_poly, deg, log_x) ==
  XorSum(LAMBDA i : IF log_poly[i] = INFINITY THEN 0
                    ELSE Alpha_exp[log_poly[i] + modNN[i * log_x]], 0..deg)

(* polynomial_differentiate(): the odd coefficients move down, the others  *)
(* vanish, and the degree becomes even.                                    *)
Derivative(log_poly, deg) ==
  [i \in 0..(deg - 1) |-> IF i % 2 = 1 THEN INFINITY ELSE log_poly[i + 1]]
DerivativeDegree(deg) == 2 * ((deg - 1) \div 2)

(* polynomial_multiply() modulo x^(deg + 1).                               *)
Multiply(deg, log1, deg1, log2, deg2) ==
  [j \in 0..deg |->
     XorSum(LAMBDA i : IF log2[i] = INFINITY \/ log1[j - i] = INFINITY THEN 0
                       ELSE Alpha_exp[log2[i] + log1[j - i]],
            {i \in 0..deg2 : j - i \in 0..deg1})]

(* add_poly_times_const(): the first deg + 1 coefficients.                 *)
AddTimes(dst, src, deg, log) ==
  [i \in DOMAIN dst |-> IF i <= deg THEN Xor(dst[i], Times(src[i], log)) ELSE dst[i]]

-----------------------------------------------------------------------------
(* generator_polynomial_init(): the product of (x - beta^(J0 + i)).        *)
GeneratorPoly(parity) ==
  LET product[i \in 0..parity] ==
        IF i = 0 THEN [j \in 0..0 |-> 1]
        ELSE LET g   == product[i - 1]
                 log == modNN[LOG_BETA * (J0 + i - 1)]
             IN  [j \in 0..i |->
                    IF j = i THEN 1
                    ELSE IF j = 0 THEN Times(g[0], log)
                    ELSE Xor(g[j - 1], Times(g[j], log))]
  IN  product[parity]

LogBeta == [i \in Field |-> IF i = INFINITY THEN INFINITY
                            ELSE Min({l \in 0..(NN - 1) : modNN[LOG_BETA * l] = i})]

(* reed_solomon_codec_new(), for parameters it accepts.                    *)
Acceptable(n, k) == n <= NN /\ k <= n
Codec(n, k) ==
  [n |-> n, k |-> k, parity |-> n - k,
   remainder_start |-> IF n = k THEN 0 ELSE (n - 1) % (n - k),
   g |-> ToAlpha(GeneratorPoly(n - k))]

(* reed_solomon_encode(): long division in a remainder that turns instead  *)
(* of being shifted; b is the place of its highest symbol.                 *)
Feed(codec, rem, b, feedback) ==
  [i \in 0..(codec.parity - 1) |->
     LET g == codec.g[(i - b) % codec.parity]
     IN  IF feedback = INFINITY THEN (IF i = b THEN 0 ELSE rem[i])
         ELSE Xor(IF i = b THEN 0 ELSE rem[i],
                  IF g = INFINITY THEN 0 ELSE Alpha_exp[feedback + g])]

Encode(codec, data) ==
  LET divide[i \in 0..codec.k] ==
        IF i = 0 THEN [rem |-> Zero(codec.parity - 1), b |-> codec.remainder_start]
        ELSE LET last     == divide[i - 1]
                 feedback == Log_alpha[Xor(data[codec.k - i], last.rem[last.b])]
             IN  [rem |-> Feed(codec, last.rem, last.b, feedback),
                  b   |-> (last.b - 1) % codec.parity]
  IN  IF codec.parity = 0 THEN <<>> ELSE divide[codec.k].rem

Block(codec, data) ==
  LET parity == Encode(codec, data)
  IN  [i \in 0..(codec.n - 1) |->
         IF i < codec.parity THEN parity[i] ELSE data[i - codec.parity]]

-----------------------------------------------------------------------------
(* compute_syndromes() *)
Syndromes(codec, block) ==
  [i \in 0..(codec.parity - 1) |->
     Evaluate(block, codec.n - 1, modNN[LOG_BETA * (J0 + i)])]

(* compute_discrepancy() of lambda with the syndromes in alpha-rep.        *)
Discrepancy(r, lambda, deg_lambda, s, deg_s) ==
  XorSum(LAMBDA i : IF s[r - i] = INFINITY THEN 0 ELSE Times(lambda[i], s[r - i]),
         Max({r - deg_s, 0})..deg_lambda)

(* compute_lambda(): the erasures' locator polynomial, and the steps of    *)
(* the Berlekamp-Massey algorithm from there.                              *)
ErasureLocator(parity, erasure) ==
  LET product[i \in 0..Len(erasure)] ==
        IF i = 0 THEN [j \in 0..parity |-> IF j = 0 THEN 1 ELSE 0]
        ELSE LET l == product[i - 1]
             IN  [j \in 0..parity |->
                    IF j \in 1..i
                    THEN Xor(l[j], Times(l[j - 1], modNN[LOG_BETA * erasure[i]]))
                    ELSE l[j]]
  IN  product[Len(erasure)]

\* Mutant: the length is compared without the erasures.
NarrowLengthens(st, r, num_erase) == 2 * st.deg <= r

Lengthens(st, r, num_erase) == 2 * st.deg <= r + num_erase

MasseyStep(st, r, num_erase, s, deg_s, parity) ==
  LET b     == [j \in 0..parity |-> IF j = 0 THEN 0 ELSE st.b[j - 1]]
      discr == Discrepancy(r, st.lambda, st.deg, s, deg_s)
      log   == Log_alpha[discr]
      next  == AddTimes(st.lambda, b, parity, log)
      deg   == r + 1 + num_erase - st.deg
  IN  IF discr = 0 THEN [st EXCEPT !.b = b]
      ELSE IF ~Lengthens(st, r, num_erase) THEN [st EXCEPT !.b = b, !.lambda = next]
      ELSE [st EXCEPT !.lambda = next, !.deg = deg, !.b = AddTimes(b, next, deg, NN - log)]

\* Mutant: the root search begins at the other end.
UpwardRoots(log_lambda, deg) ==
  LET value(i) == Xor(1, XorSum(LAMBDA j : IF log_lambda[j] = INFINITY THEN 0
                                           ELSE Alpha_exp[modNN[log_lambda[j] + i * j]],
                                1..deg))
      found == SelectSeq([i \in 1..NN |-> NN + 1 - i], LAMBDA i : value(i) = 0)
  IN  SubSeq(found, 1, Min({deg, Len(found)}))

(* find_roots(): the powers of alpha that are roots, as many as the degree *)
(* at most, in the order of the search; and the locations they stand for,  *)
(* from the highest down.                                                  *)
Roots(log_lambda, deg) ==
  LET value(i) == Xor(1, XorSum(LAMBDA j : IF log_lambda[j] = INFINITY THEN 0
                                           ELSE Alpha_exp[modNN[log_lambda[j] + i * j]],
                                1..deg))
      found == SelectSeq([i \in 1..NN |-> i], LAMBDA i : value(i) = 0)
  IN  SubSeq(found, 1, Min({deg, Len(found)}))

Location(root) == LogBeta[NN - root]

-----------------------------------------------------------------------------
VARIABLES
  codec,     \* the format descriptor
  sent,      \* ghost: the block that was encoded
  received,  \* ghost: what the tape made of it
  given,     \* ghost: the erasures the decoder was given
  block,     \* parity[] and data[]
  erasure,   \* format->erasure[]
  syndromes, \* s[], in alpha-rep
  massey,    \* lambda[], b[], deg_lambda and r of compute_lambda()
  forney,    \* root[], omega[], the derivative of lambda[] and i
  ret,       \* what reed_solomon_decode() returns
  step       \* where it is

rsVars == <<codec, sent, received, given, block, erasure, syndromes, massey,
            forney, ret, step>>

Unset == <<>>

RsInit(nk, data) ==
  /\ codec = Codec(nk[1], nk[2])
  /\ sent = Block(codec, data)
  /\ received = sent /\ block = sent
  /\ given = <<>> /\ erasure = <<>>
  /\ syndromes = Unset /\ massey = Unset /\ forney = Unset
  /\ ret = 0
  /\ step = "damage"

RsIdle ==
  /\ codec = Unset /\ sent = Unset /\ received = Unset /\ given = Unset
  /\ block = Unset /\ erasure = Unset
  /\ syndromes = Unset /\ massey = Unset /\ forney = Unset
  /\ ret = 0 /\ step = "idle"

(* External: what the tape does, and what the sector decoder knows of it.  *)
Wrong == {i \in DOMAIN sent : received[i] # sent[i]}
MayDamage == Cardinality(Wrong) + Len(given) < MaxDamage

CorruptSymbol(i, x) ==
  /\ step = "damage" /\ given = <<>> /\ MayDamage
  /\ Cardinality(Wrong) < MaxErrors
  /\ \A j \in Wrong : j < i
  /\ received' = [received EXCEPT ![i] = Xor(@, x)]
  /\ block' = received'
  /\ UNCHANGED <<codec, sent, given, erasure, syndromes, massey, forney, ret, step>>

(* In ascending order; a location may be given twice (Ecc2Decoder).        *)
GiveErasure(i) ==
  /\ step = "damage" /\ MayDamage
  /\ Len(given) < codec.parity
  /\ \A j \in DOMAIN given : given[j] <= i
  /\ given' = Append(given, i)
  /\ erasure' = given'
  /\ UNCHANGED <<codec, sent, received, block, syndromes, massey, forney, ret, step>>

(* compute_syndromes(), and the return if all are 0.                       *)
ComputeSyndromes ==
  LET s == Syndromes(codec, block)
      l == ErasureLocator(codec.parity, erasure)
  IN  /\ step = "damage"
      /\ syndromes' = [log |-> ToAlpha(s), deg |-> Degree(s)]
      /\ IF Degree(s) < 0
         THEN step' = "returned" /\ UNCHANGED massey
         ELSE /\ step' = "massey"
              /\ massey' = [lambda |-> l, b |-> l, deg |-> Len(erasure), r |-> Len(erasure)]
      /\ UNCHANGED <<codec, sent, received, given, block, erasure, forney, ret>>

(* One turn of the loop of compute_lambda().                               *)
Massey ==
  /\ step = "massey" /\ massey.r < codec.parity
  /\ massey' = [MasseyStep(massey, massey.r, Len(erasure), syndromes.log, syndromes.deg,
                           codec.parity) EXCEPT !.r = massey.r + 1]
  /\ UNCHANGED <<codec, sent, received, given, block, erasure, syndromes, forney, ret, step>>

(* find_roots(), and what the Forney algorithm needs, or an error.         *)
FindRoots ==
  LET deg   == Degree(massey.lambda)
      log   == ToAlpha(massey.lambda)
      roots == Roots(log, deg)
  IN  /\ step = "massey" /\ massey.r = codec.parity
      /\ erasure' = [i \in DOMAIN roots |-> Location(roots[i])]
                      \o SubSeq(erasure, Len(roots) + 1, Len(erasure))
      /\ IF Len(roots) # deg
         THEN step' = "returned" /\ ret' = -RS_EDEGENERATEROOTS /\ UNCHANGED forney
         ELSE /\ step' = "forney"
              /\ ret' = Len(roots)
              /\ forney' = [roots |-> roots, i |-> 1,
                            omega |-> Multiply(codec.parity - 1, syndromes.log,
                                               syndromes.deg, log, deg),
                            dlambda |-> Derivative(log, deg),
                            ddeg    |-> DerivativeDegree(deg)]
      /\ UNCHANGED <<codec, sent, received, given, block, syndromes, massey>>

(* The Forney algorithm for one root: a symbol is corrected before the     *)
(* next root is looked at, and a root that is no location of the block     *)
(* ends it.                                                                *)
Forney ==
  LET root        == forney.roots[forney.i]
      location    == Location(root)
      magnitude   == Evaluate(forney.omega, Degree(forney.omega), root)
      denominator == LogEvaluate(forney.dlambda, forney.ddeg, root)
      change      == Times(magnitude, NN - Log_alpha[denominator])
  IN  /\ step = "forney" /\ forney.i <= Len(forney.roots)
      /\ forney' = [forney EXCEPT !.i = @ + 1]
      /\ IF magnitude = 0
         THEN UNCHANGED <<block, ret, step>>
         ELSE IF denominator = 0 \/ location >= codec.n
         THEN /\ ret' = -(IF denominator = 0 THEN RS_EFORNEY ELSE RS_EINVALIDROOT)
              /\ step' = "returned"
              /\ UNCHANGED block
         ELSE /\ block' = [block EXCEPT ![location] = Xor(@, change)]
              /\ UNCHANGED <<ret, step>>
      /\ UNCHANGED <<codec, sent, received, given, erasure, syndromes, massey>>

Return ==
  /\ step = "forney" /\ forney.i > Len(forney.roots)
  /\ step' = "returned"
  /\ UNCHANGED <<codec, sent, received, given, block, erasure, syndromes, massey, forney, ret>>

RsNext ==
  \/ \E i \in DOMAIN sent, x \in Symbols : CorruptSymbol(i, x)
  \/ \E i \in DOMAIN sent : GiveErasure(i)
  \/ ComputeSyndromes \/ Massey \/ FindRoots \/ Forney \/ Return
=============================================================================
