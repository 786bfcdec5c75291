---------------------------- MODULE SigmaProofs -----------------------------
(* The zero-knowledge proofs of the repository: how they are written down,   *)
(* what each of them claims and what its verifier checks, and a prover and a *)
(* verifier who go through any of them.                                      *)
(*                                                                           *)
(* The proofs are all of one kind: each element of the statement is a        *)
(* product of bases raised to secret exponents; the prover sends the same    *)
(* products of random masks, hashes them into a challenge e and answers      *)
(* mask + e * secret for each secret; the verifier computes the products of  *)
(* the answers and some of the answers must be short.                        *)
(*                                                                           *)
(* An element is the set of its factors <<base, secret>>, and a base is the  *)
(* exponents it has in the groups it lives in.  The orders of the groups are *)
(* different primes, as they are (almost) in the code: an answer that was    *)
(* reduced modulo the order of one does not fit another.                     *)
EXTENDS Exchange

CONSTANTS
    Challenges,     \* the challenges a transcript may hash to
    Limit,          \* the largest short answer, and the largest mask
    Secret          \* the values of secrets

Order == [point |-> 5,      \* the curve, and the class group's subgroup of f
          class |-> 11,     \* the class group's part of unknown order
          plain |-> 23,     \* Paillier plaintexts
          nonce |-> 7,      \* Paillier nonces, to the power N
          ring |-> 13]      \* the commitments modulo an RSA modulus

Exponent(base, group) == IF group \in DOMAIN base THEN base[group] ELSE 0

\* What the element is in one of the groups, for these exponents.
RECURSIVE Value(_, _, _)
Value(element, v, group) ==
    IF element = {} THEN 0
    ELSE LET factor == CHOOSE t \in element : TRUE
         IN (Exponent(factor[1], group) * v[factor[2]]
             + Value(element \ {factor}, v, group)) % Order[group]

Secrets(elements) == {t[2] : t \in UNION {elements[n] : n \in DOMAIN elements}}

\* What a proof claims: its elements, which of the secrets it shows to be short,
\* and which of the answers are scalars of the curve.
Claims(elements, short, scalars) ==
    [elements |-> elements, short |-> short, scalars |-> scalars]

\* What its verifier checks: these elements, and for some answers a range: both
\* ways, from zero on, or only from above.
Checks(elements, ranges) == [elements |-> elements, ranges |-> ranges]
BothWays(w) == w :> "both ways"
FromZero(w) == w :> "from zero"
OnlyAbove(w) == w :> "only above"
Unranged == <<>>

InRange(range, z) ==
    /\ z <= Limit
    /\ range = "both ways" => z >= -Limit
    /\ range = "from zero" => z >= 0

\* Bases that several proofs use.
G == [point |-> 1]
H == [point |-> 2]
HashedH == [point |-> 3]
S == [ring |-> 1]
R == [ring |-> 4]

-----------------------------------------------------------------------------
(* The proofs about Paillier ciphertexts (tecdsa-paillier/src/zk).  S and R  *)
(* are the bases of the ring-Pedersen commitments of the verifier.           *)

Gen == [plain |-> 1]                    \* 1 + N
Nonce == [nonce |-> 1]                  \* what a nonce to the N is a power of
Cipher == [plain |-> 4, nonce |-> 2]    \* a ciphertext of the statement

Enc(x, r) == {<<Gen, x>>, <<Nonce, r>>}
Ped(x, mu) == {<<S, x>>, <<R, mu>>}

\* pi_enc: K encrypts a short x.
PiEnc == Claims([K |-> Enc("x", "rho"), S |-> Ped("x", "mu")], {"x"}, {})
PiEncChecks == Checks({"K", "S"}, BothWays("x") @@ BothWays("mu"))

\* pi_aff_g: D is C to the x with y added, Y encrypts y, X is x G.
PiAffG ==
    Claims([D |-> {<<Cipher, "x">>} \cup Enc("y", "rho"), Y |-> Enc("y", "rho_y"), X |-> {<<G, "x">>},
            S |-> Ped("x", "m"), T |-> Ped("y", "mu")], {"x", "y"}, {})
PiAffGChecks_NoX == Checks({"D", "Y", "S", "T"}, BothWays("x") @@ BothWays("y"))
PiAffGChecks == Checks({"D", "Y", "X", "S", "T"}, BothWays("x") @@ BothWays("y"))

\* pi_enc_elg: C encrypts x, and <<A b + x G, b G>> does in the exponent.
PiEncElg ==
    Claims([C |-> Enc("x", "rho"), X |-> {<<H, "b">>, <<G, "x">>}, B |-> {<<G, "b">>},
            S |-> Ped("x", "mu")], {"x"}, {"b"})
PiEncElgChecks == Checks({"C", "X", "B", "S"}, BothWays("x"))

\* nonce_consist: eta1 is behind both R_i and w, and short.
Blinder == [plain |-> 5]                \* q in the plaintext
NonceConsist ==
    Claims([R |-> {<<H, "eta1">>}, w |-> {<<Cipher, "eta1">>, <<Blinder, "eta2">>, <<Nonce, "r">>},
            z1 |-> Ped("eta1", "rho1"), z2 |-> Ped("eta2", "rho2")], {"eta1"}, {})
NonceConsistChecks == Checks({"R", "w", "z1", "z2"}, OnlyAbove("eta1"))

\* homo_mult: c3 is c2 to the plaintext of c1.
HomoMult ==
    Claims([c1 |-> Enc("eta", "r1"), c3 |-> {<<Cipher, "eta">>, <<Nonce, "r3">>},
            z |-> Ped("eta", "rho")], {"eta"}, {})
HomoMultChecks == Checks({"c1", "c3", "z"}, OnlyAbove("eta"))

\* pdl_slack: c encrypts the discrete logarithm of Q, up to the slack.  Its range
\* test looks from above only, whatever its comment says, and so do the two above
\* and those of mta_range.
PdlSlack == Claims([Q |-> {<<G, "x">>}, c |-> Enc("x", "r"), z |-> Ped("x", "rho")], {"x"}, {})
PdlSlackChecks == Checks({"Q", "c", "z"}, OnlyAbove("x"))

\* homo_elgamal: D is x H + r Y and E is r G.
HomoElgamal == Claims([D |-> {<<H, "x">>, <<HashedH, "r">>}, E |-> {<<G, "r">>}], {}, {"x", "r"})
HomoElgamalChecks == Checks({"D", "E"}, Unranged)

\* pi_elog: L is lambda G, M hides y under lambda X, and Y is y times a base.
PiElog ==
    Claims([L |-> {<<G, "lambda">>}, M |-> {<<G, "y">>, <<HashedH, "lambda">>}, Y |-> {<<H, "y">>}],
           {}, {"y", "lambda"})
PiElogChecks == Checks({"L", "M", "Y"}, Unranged)

\* pi_fac: the factors that P and Q commit to multiply to N, and both are short:
\* the commitment to N is Q to the p.
Committed == [ring |-> 6]               \* Q, in the statement of the third
PiFac ==
    Claims([P |-> Ped("p", "mu"), Q |-> Ped("q", "nu"), N |-> {<<Committed, "p">>, <<R, "v">>}],
           {"p", "q"}, {})
PiFacChecks == Checks({"P", "Q", "N"}, BothWays("p") @@ BothWays("q"))

\* pi_eq: the ciphertext of KGG24 and the point hold the same short number.
PiEq == Claims([c |-> Enc("x", "r"), X |-> {<<G, "x">>}], {"x"}, {})
PiEqChecks == Checks({"c", "X"}, FromZero("x"))

\* pia_pib: XAL21's two messages, c_B encrypts b and c_A is c_B to the a, masked.
PiB == Claims([c |-> Enc("b", "r")], {"b"}, {})
PiBChecks == Checks({"c"}, FromZero("b"))
PiA == Claims([c |-> {<<Cipher, "a">>} \cup Enc("alpha", "r")], {"a", "alpha"}, {})
PiAChecks == Checks({"c"}, FromZero("a") @@ FromZero("alpha"))

\* mta_range: Alice's ciphertext holds a short a; Bob answered with a short b,
\* and in the extended proof with the b of a point he announced.  Nothing is
\* claimed of Bob's mask beta, and nothing is tested.
AliceProof == Claims([c |-> Enc("a", "r"), z |-> Ped("a", "rho")], {"a"}, {})
AliceProofChecks == Checks({"c", "z"}, OnlyAbove("a"))
BobProof ==
    Claims([c |-> {<<Cipher, "b">>} \cup Enc("beta", "r"), z |-> Ped("b", "rho"),
            t |-> Ped("beta", "sigma")], {"b"}, {})
BobProofChecks == Checks({"c", "z", "t"}, OnlyAbove("b"))
BobProofExt ==
    Claims([X |-> {<<G, "b">>}] @@ BobProof.elements, BobProof.short, BobProof.scalars)
BobProofExtChecks == Checks({"X"} \cup BobProofChecks.elements, BobProofChecks.ranges)

-----------------------------------------------------------------------------
(* The proofs about class-group ciphertexts (tecdsa-class-group/src/zk).  h  *)
(* generates the class group's part of unknown order, f the subgroup of      *)
(* order q where messages are, pk and c are elements of the statement.       *)

h == [class |-> 1]
f == [point |-> 1]
pk == [class |-> 3]
c1 == [class |-> 5]
c2 == [class |-> 6, point |-> 2]
hq == [class |-> 5]                     \* h to the q
negF == [point |-> -1]

Ciphertext(m, r) == [c1 |-> {<<h, r>>}, c2 |-> {<<pk, r>>, <<f, m>>}]

\* r_enc: a ciphertext of m; r_cl_dl: the m of Y = m f; r_cl_dl_ec: the m of a point.
REnc == Claims(Ciphertext("m", "r"), {}, {"m"})
REncChecks == Checks({"c1", "c2"}, Unranged)
\* The same with the session hashed into the challenge; so for the other Prefixed.
REncPrefixed == REnc
REncPrefixedChecks == REncChecks
RClDl == Claims(Ciphertext("x", "r") @@ [Y |-> {<<f, "x">>}], {}, {"x"})
RClDlChecks == Checks({"c1", "c2", "Y"}, Unranged)
RClDlPrefixed == RClDl
RClDlPrefixedChecks == RClDlChecks
RClDlEc == Claims(Ciphertext("v", "r") @@ [V |-> {<<G, "v">>}], {}, {"v"})
RClDlEcChecks == Checks({"c1", "c2", "V"}, Unranged)

\* r_el_cl: an ElGamal pair in the exponent and a scaled ciphertext share gamma,
\* which is not reduced because the ciphertext is raised to it.
RElCl ==
    Claims([e0 |-> {<<G, "r">>}, e1 |-> {<<H, "gamma">>, <<HashedH, "r">>},
            k0 |-> {<<c1, "gamma">>}, k1 |-> {<<c2, "gamma">>}], {}, {"r"})
RElClChecks == Checks({"e0", "e1", "k0", "k1"}, Unranged)

\* r_aff_com: the ciphertext to the x, with y added, and a commitment to x;
\* r_m_aff_dl: with y f instead of the commitment.
Affine(x, y, r) == [o1 |-> {<<c1, x>>, <<h, r>>}, o2 |-> {<<c2, x>>, <<pk, r>>, <<f, y>>}]
RAffCom_Reduced == Claims(Affine("x", "y", "r1") @@ [C |-> {<<h, "r2">>, <<f, "x">>}], {}, {"x", "y"})
RAffCom == Claims(Affine("x", "y", "r1") @@ [C |-> {<<h, "r2">>, <<f, "x">>}], {}, {"y"})
RAffComChecks == Checks({"o1", "o2", "C"}, Unranged)
RMAffDl == Claims(Affine("x", "y", "r") @@ [Y |-> {<<f, "y">>}], {}, {"y"})
RMAffDlChecks == Checks({"o1", "o2", "Y"}, Unranged)

\* r_enc_pc: the plaintext is committed to on the curve.
REncPc == Claims(Ciphertext("chi", "r") @@ [PC |-> {<<G, "chi">>, <<H, "chi1">>}], {}, {"chi", "chi1"})
REncPcChecks == Checks({"c1", "c2", "PC"}, Unranged)

\* r_m_aff_dl_ec: the ciphertext to the k less beta, R = k G and B = beta G.
RMAffDlEc ==
    Claims([d1 |-> {<<c1, "k">>}, d2 |-> {<<c2, "k">>, <<negF, "beta">>},
            R |-> {<<G, "k">>}, B |-> {<<G, "beta">>}], {}, {"beta"})
RMAffDlEcChecks == Checks({"d1", "d2", "R", "B"}, Unranged)

\* r_dec_dl, r_gdec_cl: the decryption used the key of pk.  r_dl_cl: the two
\* halves of a ciphertext and a point have the same logarithm.
RDecDl == Claims([pk |-> {<<h, "sk">>}, pd |-> {<<c1, "sk">>}], {}, {})
RDecDlChecks == Checks({"pk", "pd"}, Unranged)
RDecDlPrefixed == RDecDl
RDecDlPrefixedChecks == RDecDlChecks
RGdecCl == Claims([pk |-> {<<h, "sk">>}, d |-> {<<c1, "sk">>}], {}, {})
RGdecClChecks == Checks({"pk", "d"}, Unranged)
RDlCl == Claims([a1 |-> {<<c1, "x">>}, a2 |-> {<<c2, "x">>}, X |-> {<<G, "x">>}], {}, {})
RDlClChecks == Checks({"a1", "a2", "X"}, Unranged)

\* r_com_kwlg, r_ped_ec: what a commitment hides, and the point it is of.
RComKwlg == Claims([C |-> {<<h, "r">>, <<f, "m">>}], {}, {"m"})
RComKwlgChecks == Checks({"C"}, Unranged)
RComKwlgBase == Claims([C |-> {<<pk, "r">>, <<f, "m">>}], {}, {"m"})
RComKwlgBaseChecks == Checks({"C"}, Unranged)
RPedEc == Claims([C |-> {<<h, "r">>, <<pk, "v">>}, V |-> {<<G, "v">>}], {}, {})
RPedEcChecks == Checks({"C", "V"}, Unranged)

\* r_ddh_cl, r_bint, r_pc_dl, r_key, r_cl_kwlg: one logarithm, or the same twice.
RDdhCl == Claims([A |-> {<<h, "x">>}, C |-> {<<pk, "x">>}], {}, {})
RDdhClChecks == Checks({"A", "C"}, Unranged)
RBint == Claims([y |-> {<<h, "x">>}], {"x"}, {})
RBintChecks == Checks({"y"}, FromZero("x"))
RPcDl == Claims([y |-> {<<f, "x">>}], {}, {"x"})
RPcDlChecks == Checks({"y"}, Unranged)
RKey == Claims([pk |-> {<<h, "sk">>}], {}, {})
RKeyChecks == Checks({"pk"}, Unranged)
RClKwlg == Claims([pk |-> {<<h, "sk">>}], {}, {})
RClKwlgChecks == Checks({"pk"}, Unranged)

\* r_blnt: two chunks, each encrypted, their sum in the aggregate and in pc.
RBlnt ==
    LET sum == {<<hq, "chi1">>, <<hq, "chi2">>}
    IN Claims([pc |-> {<<h, "chi0">>} \cup sum,
               a0 |-> {<<h, "r1">>}, a1 |-> {<<f, "chi1">>, <<pk, "r1">>},
               b0 |-> {<<h, "r2">>}, b1 |-> {<<f, "chi2">>, <<pk, "r2">>},
               g0 |-> {<<h, "r">>} \cup sum, g1 |-> {<<pk, "r">>} \cup sum], {}, {})
RBlntChecks == Checks({"pc", "a0", "a1", "b0", "b1", "g0", "g1"}, Unranged)

\* matrix.rs: rows of products of the same secrets, each row checked.
Matrix == Claims([t1 |-> {<<h, "a">>, <<pk, "b">>}, t2 |-> {<<c1, "a">>, <<c2, "b">>}], {}, {})
MatrixChecks == Checks({"t1", "t2"}, Unranged)

-----------------------------------------------------------------------------
(* Joye-Libert: y is the base of messages, whose order is a power of two in *)
(* the code; a commitment raises both bases to 2^k.                          *)
y == [plain |-> 1]
x0 == [ring |-> 1]
cjl == [plain |-> 3, ring |-> 5]
com(m, r) == {<<[plain |-> 8], m>>, <<[ring |-> 8], r>>}
other(m, r) == {<<[nonce |-> 2], m>>, <<[ring |-> 6], r>>}

ZkJlEnc == Claims([c |-> {<<y, "m">>, <<x0, "r">>}], {}, {})
ZkJlEncChecks == Checks({"c"}, Unranged)
ZkJlEncPrefixed == ZkJlEnc
ZkJlEncPrefixedChecks == ZkJlEncChecks
ZkJlAff == Claims([c |-> {<<cjl, "a">>, <<y, "alpha">>, <<x0, "r">>}], {}, {})
ZkJlAffChecks == Checks({"c"}, Unranged)
ZkJlCom == Claims([c |-> com("m", "r")], {}, {})
ZkJlComChecks == Checks({"c"}, Unranged)
ZkJlEqu == Claims([c |-> com("m", "r"), c0 |-> other("m", "r0")], {}, {})
ZkJlEquChecks == Checks({"c", "c0"}, Unranged)
ZkJlvCom == Claims([c |-> com("m1", "r") \cup {<<[plain |-> 3], "m2">>}], {}, {})
ZkJlvComChecks == Checks({"c"}, Unranged)
ZkJlvEqu ==
    Claims([c |-> com("m1", "r") \cup {<<[plain |-> 3], "m2">>},
            c01 |-> other("m1", "r01"), c02 |-> other("m2", "r02")], {}, {})
ZkJlvEquChecks == Checks({"c", "c01", "c02"}, Unranged)

\* zkqr2k: h is the 2^k-th power of x; zkqr2kdl: the 2^k-th power of y is one of
\* h.  The challenge is a bit, as often as it takes.  zkjlmod: both, for one key.
ZkQr2k == Claims([h |-> {<<[ring |-> 8], "x">>}], {}, {})
ZkQr2kChecks == Checks({"h"}, Unranged)
ZkQr2kDl == Claims([c |-> {<<[ring |-> 3], "alpha">>}], {}, {})
ZkQr2kDlChecks == Checks({"c"}, Unranged)
ZkJlMod == Claims(ZkQr2k.elements @@ [c |-> {<<[ring |-> 3], "alpha">>}], {}, {})
ZkJlModChecks == Checks(ZkQr2kChecks.elements \cup ZkQr2kDlChecks.elements, Unranged)

-----------------------------------------------------------------------------
(* Points of the curve: tecdsa-curve/src/zk, WMY23's two proofs, the eVRF's *)
(* and the DDH tuples.                                                       *)
P == [point |-> 4]

DLog == Claims([Q |-> {<<G, "sk">>}], {}, {"sk"})
DLogChecks == Checks({"Q"}, Unranged)
Ddh == Claims([b |-> {<<G, "w">>}, c |-> {<<P, "w">>}], {}, {"w"})
DdhChecks == Checks({"b", "c"}, Unranged)
Evrf == Claims([pk |-> {<<G, "sk">>}, y |-> {<<HashedH, "sk">>}], {}, {"sk"})
EvrfChecks == Checks({"pk", "y"}, Unranged)
EgExp == Claims([A |-> {<<G, "r">>}, B |-> {<<P, "r">>, <<G, "x">>}], {}, {"r", "x"})
EgExpChecks == Checks({"A", "B"}, Unranged)
ReRandom ==
    Claims([a |-> {<<G, "r">>, <<H, "s">>}, b |-> {<<P, "r">>, <<HashedH, "s">>}], {}, {"r", "s"})
ReRandomChecks == Checks({"a", "b"}, Unranged)

\* prod: the second half is a DDH proof about the statement times the challenge.
ProdProof ==
    Claims([E |-> {<<H, "y">>, <<G, "r">>}, F |-> {<<HashedH, "y">>, <<P, "r">>},
            C |-> {<<G, "t">>}, D |-> {<<P, "t">>, <<G, "y">>}], {}, {"y", "r", "t"})
ProdChecks == Checks({"E", "F", "C", "D"}, Unranged)

RDlPc == Claims([Q |-> {<<G, "m">>}, pc |-> {<<G, "m">>, <<H, "r">>}], {}, {"m", "r"})
RDlPcChecks == Checks({"Q", "pc"}, Unranged)
RDlPcBase == Claims([Q |-> {<<P, "m">>}, pc |-> {<<G, "m">>, <<H, "r">>}], {}, {"m", "r"})
RDlPcBaseChecks == Checks({"Q", "pc"}, Unranged)
RDl2Pc ==
    Claims([pc |-> {<<G, "k">>, <<H, "k1">>}, n |-> {<<P, "k">>, <<HashedH, "mu">>},
            m |-> {<<H, "mu">>}], {}, {"k", "k1", "mu"})
RDl2PcChecks == Checks({"pc", "n", "m"}, Unranged)

-----------------------------------------------------------------------------
(* A prover and a verifier go through any of the proofs.  The prover may     *)
(* claim something false: an element that its secrets do not give, or a      *)
(* secret that is too long.  It then bets on a challenge and makes the one   *)
(* commitment that passes for it.  The secrets are integers: that a prover   *)
(* cannot answer with anything else is what the groups of unknown order are  *)
(* assumed for.                                                              *)

Row(claims, checks) == [claims |-> claims, checks |-> checks]

Proofs == [
    pi_enc |-> Row(PiEnc, PiEncChecks),
    pi_aff_g |-> Row(PiAffG, PiAffGChecks),
    pi_enc_elg |-> Row(PiEncElg, PiEncElgChecks),
    nonce_consist |-> Row(NonceConsist, NonceConsistChecks),
    homo_mult |-> Row(HomoMult, HomoMultChecks),
    pdl_slack |-> Row(PdlSlack, PdlSlackChecks),
    homo_elgamal |-> Row(HomoElgamal, HomoElgamalChecks),
    pi_elog |-> Row(PiElog, PiElogChecks),
    pi_fac |-> Row(PiFac, PiFacChecks),
    pi_eq |-> Row(PiEq, PiEqChecks),
    pi_b |-> Row(PiB, PiBChecks),
    pi_a |-> Row(PiA, PiAChecks),
    alice_proof |-> Row(AliceProof, AliceProofChecks),
    bob_proof |-> Row(BobProof, BobProofChecks),
    bob_proof_ext |-> Row(BobProofExt, BobProofExtChecks),
    r_enc |-> Row(REnc, REncChecks),
    r_enc_prefixed |-> Row(REncPrefixed, REncPrefixedChecks),
    r_cl_dl |-> Row(RClDl, RClDlChecks),
    r_cl_dl_prefixed |-> Row(RClDlPrefixed, RClDlPrefixedChecks),
    r_cl_dl_ec |-> Row(RClDlEc, RClDlEcChecks),
    r_el_cl |-> Row(RElCl, RElClChecks),
    r_aff_com |-> Row(RAffCom, RAffComChecks),
    r_m_aff_dl |-> Row(RMAffDl, RMAffDlChecks),
    r_enc_pc |-> Row(REncPc, REncPcChecks),
    r_m_aff_dl_ec |-> Row(RMAffDlEc, RMAffDlEcChecks),
    r_dec_dl |-> Row(RDecDl, RDecDlChecks),
    r_dec_dl_prefixed |-> Row(RDecDlPrefixed, RDecDlPrefixedChecks),
    r_gdec_cl |-> Row(RGdecCl, RGdecClChecks),
    r_dl_cl |-> Row(RDlCl, RDlClChecks),
    r_com_kwlg |-> Row(RComKwlg, RComKwlgChecks),
    r_com_kwlg_base |-> Row(RComKwlgBase, RComKwlgBaseChecks),
    r_ped_ec |-> Row(RPedEc, RPedEcChecks),
    r_ddh_cl |-> Row(RDdhCl, RDdhClChecks),
    r_bint |-> Row(RBint, RBintChecks),
    r_pc_dl |-> Row(RPcDl, RPcDlChecks),
    r_key |-> Row(RKey, RKeyChecks),
    r_cl_kwlg |-> Row(RClKwlg, RClKwlgChecks),
    r_blnt |-> Row(RBlnt, RBlntChecks),
    matrix |-> Row(Matrix, MatrixChecks),
    zk_jl_enc |-> Row(ZkJlEnc, ZkJlEncChecks),
    zk_jl_enc_prefixed |-> Row(ZkJlEncPrefixed, ZkJlEncPrefixedChecks),
    zk_jl_aff |-> Row(ZkJlAff, ZkJlAffChecks),
    zk_jl_com |-> Row(ZkJlCom, ZkJlComChecks),
    zk_jl_equ |-> Row(ZkJlEqu, ZkJlEquChecks),
    zk_jlv_com |-> Row(ZkJlvCom, ZkJlvComChecks),
    zk_jlv_equ |-> Row(ZkJlvEqu, ZkJlvEquChecks),
    zk_qr2k |-> Row(ZkQr2k, ZkQr2kChecks),
    zk_qr2k_dl |-> Row(ZkQr2kDl, ZkQr2kDlChecks),
    zk_jl_mod |-> Row(ZkJlMod, ZkJlModChecks),
    d_log |-> Row(DLog, DLogChecks),
    ddh |-> Row(Ddh, DdhChecks),
    evrf |-> Row(Evrf, EvrfChecks),
    eg_exp |-> Row(EgExp, EgExpChecks),
    re_random |-> Row(ReRandom, ReRandomChecks),
    prod_proof |-> Row(ProdProof, ProdChecks),
    r_dl_pc |-> Row(RDlPc, RDlPcChecks),
    r_dl_pc_base |-> Row(RDlPcBase, RDlPcBaseChecks),
    r_dl2_pc |-> Row(RDl2Pc, RDl2PcChecks)]

Claimed == Proofs[know.proof].claims
Checked == Proofs[know.proof].checks
Groups == DOMAIN Order
None == <<"none", "none">>

\* The secrets of a proof that are integers: a nonce to the power N is an element,
\* whose exponent nobody sees, and scalars are reduced.
IntegersOf(claims) ==
    {w \in Secrets(claims.elements) \ claims.scalars :
        \E n \in DOMAIN claims.elements : \E t \in claims.elements[n] :
           t[2] = w /\ DOMAIN t[1] # {"nonce"}}

\* The proofs whose integers are written as digits, without their sign: those of
\* the class groups, and the three that GGN16 sends with to_bytes.
WithoutSign ==
    {"nonce_consist", "homo_mult", "pdl_slack"} \cup
    {"r_enc", "r_enc_prefixed", "r_cl_dl", "r_cl_dl_prefixed", "r_cl_dl_ec", "r_el_cl",
     "r_aff_com", "r_m_aff_dl", "r_enc_pc", "r_m_aff_dl_ec", "r_dec_dl", "r_dec_dl_prefixed",
     "r_gdec_cl", "r_dl_cl", "r_com_kwlg", "r_com_kwlg_base", "r_ped_ec", "r_ddh_cl", "r_bint",
     "r_pc_dl", "r_key", "r_cl_kwlg", "r_blnt", "matrix"}

\* Everything that can be off about a proof: an element, or an integer that is
\* too long, above zero or below.
FaultsOf(claims) ==
    {None} \cup ({"element"} \X DOMAIN claims.elements)
           \cup ({"long", "low"} \X IntegersOf(claims))

\* What the elements are for these exponents.
Elements(v) ==
    [n \in DOMAIN Claimed.elements |-> [g \in Groups |-> Value(Claimed.elements[n], v, g)]]

\* By how much an element is off in a group.
OffBy(n, g) == IF fault = <<"element", n>> THEN 1 ELSE 0

\* What is off is drawn with the proof; a false element comes with the challenge
\* that its prover bets on.
ProofBegin ==
    /\ scheme = "proof" /\ stage = "commit"
    /\ \E proof \in DOMAIN Proofs :
          /\ fault \in FaultsOf(Proofs[proof].claims)
          /\ \E bet \in IF fault[1] = "element" THEN Challenges ELSE {0} :
                know = [proof |-> proof, bet |-> bet]

TooLong == 2 * Limit + 5

\* commit: the statement is fixed and the masked products are sent.
Commit ==
    /\ scheme = "proof" /\ stage = "commit"
    /\ \E value \in Secret, mask \in {0, Limit} :
          LET names == Secrets(Claimed.elements)
              secret == [w \in names |-> CASE fault = <<"long", w>> -> TooLong
                                           [] fault = <<"low", w>> -> -TooLong
                                           [] OTHER -> value]
              claimed == Elements(secret)
              a == Elements([w \in names |-> mask])
          IN Step("commit", "prove",
                  [statement |-> [n \in DOMAIN claimed |->
                            [g \in Groups |-> (claimed[n][g] + OffBy(n, g)) % Order[g]]],
                   a |-> [n \in DOMAIN claimed |->
                            [g \in Groups |-> (a[n][g] - know.bet * OffBy(n, g)) % Order[g]]],
                   secret |-> secret, mask |-> mask])

Answer(w, e) == know.mask + e * know.secret[w]
Magnitude(z) == IF z < 0 THEN -z ELSE z
Losing(w) == know.proof \in WithoutSign /\ w \in IntegersOf(Claimed)

\* The answers to the challenge, as they are written.  Scalars of the curve are
\* reduced by their type, and response_mod_q reduces some of the answers of the
\* class-group proofs.
Response(w, e) ==
    CASE w \in Claimed.scalars -> Answer(w, e) % Order.point
      [] Losing(w) -> Magnitude(Answer(w, e))
      [] OTHER -> Answer(w, e)

Prove ==
    /\ scheme = "proof" /\ stage = "prove"
    /\ \E e \in Challenges :
          Step("prove", "verify", [e |-> e, z |-> [w \in DOMAIN know.secret |-> Response(w, e)]])

ElementHolds(n) ==
    \A g \in Groups :
       Value(Claimed.elements[n], know.z, g) = (know.a[n][g] + know.e * know.statement[n][g]) % Order[g]

RangesHold == \A w \in DOMAIN Checked.ranges : InRange(Checked.ranges[w], know.z[w])

Verify ==
    /\ scheme = "proof" /\ stage = "verify"
    /\ IF /\ \A n \in Checked.elements : ElementHolds(n)
          /\ RangesHold
       THEN Step("verify", "done", <<>>)
       ELSE Refuse("verify")

ProofNext == Commit \/ Prove \/ Verify

-----------------------------------------------------------------------------
\* An element is not what it is claimed to be, or a secret that is claimed to be
\* short is too long, above zero or below.
FalseClaim == fault # None /\ (fault[1] = "element" \/ fault[2] \in Claimed.short)

\* A secret below zero of which the verifier only looks from above, and sees the
\* sign: AliceProof and both proofs of Bob.  What RangesTwoSided is about.
LowUnseen ==
    /\ fault[1] = "low" /\ fault[2] \in Claimed.short
    /\ Checked.ranges[fault[2]] = "only above"
    /\ know.proof \notin WithoutSign

\* No proof of anything false is accepted, unless the challenge was the one the
\* prover bet on (or 0, which asks nothing of a secret), and unless it is LowUnseen:
\* every element of the statement, and every upper limit that a proof claims, is
\* among what its verify looks at.
FalseClaimRefused == Done("proof") => ~FalseClaim \/ know.e = know.bet \/ LowUnseen

\* The documented claim of the range proofs: |a| < q^3 of AliceProof and |b| < q^3
\* of Bob's (mta_range.rs:10-16), so on either side of zero.
RangesTwoSided == Done("proof") /\ fault[1] \in {"long", "low"} => ~FalseClaim \/ know.e = know.bet

\* A proof of what is true is refused only for an answer out of range, which an
\* honest prover runs into with a mask close to the limit or a secret below zero,
\* or for a sign that was lost on the way.  In particular an answer is reduced only
\* where every group it is used in has order q (r_aff_com.rs:93 says so of x), and
\* the length of a secret of which nothing is claimed is nobody's concern.
TrueClaimAccepted ==
    scheme = "proof" /\ stage = "refused" =>
       \/ FalseClaim
       \/ ~RangesHold
       \/ \E w \in DOMAIN know.secret : Losing(w) /\ Answer(w, know.e) < 0
=============================================================================
