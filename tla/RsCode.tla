------------------------------- MODULE RsCode -------------------------------
(***************************************************************************)
(* decode.c: the error correction of quirc.  The same Berlekamp-Massey and *)
(* polynomial routines serve the format word, a (15, 5) BCH code over      *)
(* GF(16), and the blocks of codewords, Reed-Solomon codes over GF(256).   *)
(***************************************************************************)
EXTENDS Integers, SequencesExt, Once

CONSTANT MaxPoly   \* MAX_POLY: the coefficients of a polynomial

ASSUME MaxPolyAssumption == MaxPoly \in Nat \ {0}

From0(seq) == [i \in 0..(Len(seq) - 1) |-> seq[i + 1]]

gf16_exp == From0(<<
  1, 2, 4, 8, 3, 6, 12, 11, 5, 10, 7, 14, 15, 13, 9, 1>>)

gf16_log == From0(<<
  0, 15, 1, 4, 2, 8, 5, 10, 3, 14, 9, 7, 6, 13, 11, 12>>)

gf256_exp == From0(<<
  1, 2, 4, 8, 16, 32, 64, 128, 29, 58, 116, 232, 205, 135, 19, 38, 76, 152, 45, 90, 180, 117,
  234, 201, 143, 3, 6, 12, 24, 48, 96, 192, 157, 39, 78, 156, 37, 74, 148, 53, 106, 212, 181,
  119, 238, 193, 159, 35, 70, 140, 5, 10, 20, 40, 80, 160, 93, 186, 105, 210, 185, 111, 222,
  161, 95, 190, 97, 194, 153, 47, 94, 188, 101, 202, 137, 15, 30, 60, 120, 240, 253, 231, 211,
  187, 107, 214, 177, 127, 254, 225, 223, 163, 91, 182, 113, 226, 217, 175, 67, 134, 17, 34,
  68, 136, 13, 26, 52, 104, 208, 189, 103, 206, 129, 31, 62, 124, 248, 237, 199, 147, 59, 118,
  236, 197, 151, 51, 102, 204, 133, 23, 46, 92, 184, 109, 218, 169, 79, 158, 33, 66, 132, 21,
  42, 84, 168, 77, 154, 41, 82, 164, 85, 170, 73, 146, 57, 114, 228, 213, 183, 115, 230, 209,
  191, 99, 198, 145, 63, 126, 252, 229, 215, 179, 123, 246, 241, 255, 227, 219, 171, 75, 150,
  49, 98, 196, 149, 55, 110, 220, 165, 87, 174, 65, 130, 25, 50, 100, 200, 141, 7, 14, 28, 56,
  112, 224, 221, 167, 83, 166, 81, 162, 89, 178, 121, 242, 249, 239, 195, 155, 43, 86, 172, 69,
  138, 9, 18, 36, 72, 144, 61, 122, 244, 245, 247, 243, 251, 235, 203, 139, 11, 22, 44, 88,
  176, 125, 250, 233, 207, 131, 27, 54, 108, 216, 173, 71, 142, 1>>)

gf256_log == From0(<<
  0, 255, 1, 25, 2, 50, 26, 198, 3, 223, 51, 238, 27, 104, 199, 75, 4, 100, 224, 14, 52, 141,
  239, 129, 28, 193, 105, 248, 200, 8, 76, 113, 5, 138, 101, 47, 225, 36, 15, 33, 53, 147, 142,
  218, 240, 18, 130, 69, 29, 181, 194, 125, 106, 39, 249, 185, 201, 154, 9, 120, 77, 228, 114,
  166, 6, 191, 139, 98, 102, 221, 48, 253, 226, 152, 37, 179, 16, 145, 34, 136, 54, 208, 148,
  206, 143, 150, 219, 189, 241, 210, 19, 92, 131, 56, 70, 64, 30, 66, 182, 163, 195, 72, 126,
  110, 107, 58, 40, 84, 250, 133, 186, 61, 202, 94, 155, 159, 10, 21, 121, 43, 78, 212, 229,
  172, 115, 243, 167, 87, 7, 112, 192, 247, 140, 128, 99, 13, 103, 74, 222, 237, 49, 197, 254,
  24, 227, 165, 153, 119, 38, 184, 180, 124, 17, 68, 146, 217, 35, 32, 137, 46, 55, 63, 209,
  91, 149, 188, 207, 205, 144, 135, 151, 178, 220, 252, 190, 97, 242, 86, 211, 171, 20, 42, 93,
  158, 132, 60, 57, 83, 71, 109, 65, 162, 31, 45, 67, 216, 183, 123, 164, 118, 196, 23, 73,
  236, 127, 12, 111, 246, 108, 161, 59, 82, 41, 157, 85, 170, 251, 96, 134, 177, 187, 204, 62,
  90, 203, 89, 95, 176, 156, 169, 160, 81, 11, 245, 22, 235, 122, 117, 44, 215, 79, 174, 213,
  233, 230, 231, 173, 232, 116, 214, 244, 234, 168, 80, 88, 175>>)

gf16 == [p |-> 15, log |-> gf16_log, exp |-> gf16_exp]
gf256 == [p |-> 255, log |-> gf256_log, exp |-> gf256_exp]

\* The bytes a ^ b.
Xor == [a \in 0..255 |-> [b \in 0..255 |->
         LET digit[k \in 0..8] ==
               IF k = 8 THEN 0
               ELSE ((a \div 2^k + b \div 2^k) % 2) * 2^k + digit[k + 1]
         IN  digit[0]]]

\* f(from) ^ ... ^ f(to).
XorOver(from, to, f(_)) ==
  LET sum[i \in (from - 1)..to] == IF i < from THEN 0 ELSE Xor[sum[i - 1]][f(i)]
  IN  IF to < from THEN 0 ELSE sum[to]

Degrees == 0..(MaxPoly - 1)
Zero == [i \in Degrees |-> 0]
One == [Zero EXCEPT ![0] = 1]

Times(a, b, gf) == IF a = 0 \/ b = 0 THEN 0 ELSE gf.exp[(gf.log[a] + gf.log[b]) % gf.p]

\* dst + c x^shift src.
poly_add(dst, src, c, shift, gf) ==
  [p \in Degrees |-> IF p - shift \in Degrees THEN Xor[dst[p]][Times(src[p - shift], c, gf)]
                     ELSE dst[p]]

poly_eval(s, x, gf) ==
  IF x = 0 THEN s[0]
  ELSE XorOver(0, MaxPoly - 1, LAMBDA i :
         IF s[i] = 0 THEN 0 ELSE gf.exp[(gf.log[s[i]] + gf.log[x] * i) % gf.p])
-----------------------------------------------------------------------------
\* Whether a discrepancy at step n lengthens the register of length L.
\* Mutant of Lengthens: one step late.
LengthensLate(L, n) == L * 2 < n
Lengthens(L, n) == L * 2 <= n

\* The shortest linear feedback register that produces the N syndromes s.
berlekamp_massey(s, N, gf) ==
  LET Discrepancy(r, n) == Xor[s[n]][XorOver(1, r.L, LAMBDA i : Times(r.C[i], s[n - i], gf))]
      Step(r, n, d) ==
        LET mult == gf.exp[(gf.p - gf.log[r.b] + gf.log[d]) % gf.p]
            longer == poly_add(r.C, r.B, mult, r.m, gf)
        IN  IF d = 0 THEN [r EXCEPT !.m = @ + 1]
            ELSE IF Lengthens(r.L, n)
              THEN [C |-> longer, B |-> r.C, L |-> n + 1 - r.L, b |-> d, m |-> 1]
            ELSE [r EXCEPT !.C = longer, !.m = @ + 1]
      reg[n \in 0..N] ==
        IF n = 0 THEN [C |-> One, B |-> One, L |-> 0, b |-> 1, m |-> 1]
        ELSE With(reg[n - 1], LAMBDA r : Step(r, n - 1, Discrepancy(r, n - 1)))
  IN  reg[N].C
-----------------------------------------------------------------------------
(* Blocks of codewords: data is a function on 0..(bs - 1), the first byte   *)
(* the coefficient of the highest power.                                    *)

block_syndromes(data, bs, npar) ==
  [i \in Degrees |->
     IF i >= npar THEN 0
     ELSE XorOver(0, bs - 1, LAMBDA j :
            IF data[bs - j - 1] = 0 THEN 0
            ELSE gf256_exp[(gf256_log[data[bs - j - 1]] + i * j) % 255])]

\* The coefficients of x s sigma / x below npar: those of the error evaluator.
eloc_poly(s, sigma, npar) ==
  [k \in Degrees |->
     IF k >= npar THEN 0
     ELSE XorOver(0, k, LAMBDA i : IF k - i + 1 \in Degrees
                                   THEN Times(sigma[i], s[k - i + 1], gf256) ELSE 0)]

Derivative(sigma) ==
  [i \in Degrees |-> IF i % 2 = 0 /\ i + 1 \in Degrees THEN sigma[i + 1] ELSE 0]

\* The block with an error taken off wherever the locator has a root.
Repaired(data, s, sigma, bs, npar) ==
  LET omega == eloc_poly(s, sigma, npar - 1)
      deriv == Derivative(sigma)
      Error(x) == gf256_exp[(255 - gf256_log[poly_eval(deriv, x, gf256)]
                               + gf256_log[poly_eval(omega, x, gf256)]) % 255]
  IN  [k \in 0..(bs - 1) |->
         LET xinv == gf256_exp[255 - (bs - k - 1)]
         IN  IF poly_eval(sigma, xinv, gf256) = 0 THEN Xor[data[k]][Error(xinv)] ELSE data[k]]

BlockAccepted(data, bs, npar) == block_syndromes(data, bs, npar) = Zero

correct_block(data, ecc) ==
  LET npar == ecc.bs - ecc.dw
  IN  With(block_syndromes(data, ecc.bs, npar), LAMBDA s :
        IF s = Zero THEN [ok |-> TRUE, data |-> data]
        ELSE With(berlekamp_massey(s, npar, gf256), LAMBDA sigma :
          With(Repaired(data, s, sigma, ecc.bs, npar), LAMBDA fixed :
            [ok |-> BlockAccepted(fixed, ecc.bs, npar), data |-> fixed])))
-----------------------------------------------------------------------------
(* The format word: a function from the bits 0..14.                         *)

FormatSyndromes == 6
FormatBits == 0..14

format_syndromes(u) ==
  [i \in Degrees |->
     IF i >= FormatSyndromes THEN 0
     ELSE XorOver(0, 14, LAMBDA j : IF u[j] = 1 THEN gf16_exp[((i + 1) * j) % 15] ELSE 0)]

correct_format(u) ==
  LET Flipped(sigma) ==
        [i \in FormatBits |-> IF poly_eval(sigma, gf16_exp[15 - i], gf16) = 0 THEN 1 - u[i]
                              ELSE u[i]]
  IN  With(format_syndromes(u), LAMBDA s :
        IF s = Zero THEN [ok |-> TRUE, word |-> u]
        ELSE With(Flipped(berlekamp_massey(s, FormatSyndromes, gf16)), LAMBDA v :
          IF format_syndromes(v) = Zero THEN [ok |-> TRUE, word |-> v]
          ELSE [ok |-> FALSE, word |-> u]))
=============================================================================
