-------------------------------- MODULE Identity --------------------------------
(***************************************************************************)
(* The identity of the gateway: how the identification service derives its *)
(* key and public id from the secret fingerprint (src/services/id/id.c),   *)
(* and what the cryptographic service does with the key and with its       *)
(* ciphers (src/services/crypto/crypto.c).                                 *)
(*                                                                         *)
(* The curve is external: a group of odd order Order in which d and        *)
(* Order - d share the X coordinate and exactly one of them has the even   *)
(* root.  A signature is the pair of the key and the message it signs;     *)
(* a challenge or a ciphertext is known by what the code tells apart.      *)
(***************************************************************************)
EXTENDS Integers, Policy

CONSTANTS
  Order,        \* the order of the group (P256_ORDER)
  EvenRoots,    \* the scalars whose point has the even root
  Fp,           \* fingerprints
  Hkdf,         \* [Fp -> [0 .. ID_KEY_TRIES - 1 -> Nat]]: HKDF under each counter
  HasAria,      \* PSA was built with ARIA
  MaxPayload    \* CRYPTO_MAX_PAYLOAD, bytes

ASSUME CurveAssumption ==
  /\ Order \in Nat /\ Order % 2 = 1 /\ Order > 2
  /\ EvenRoots \subseteq 1 .. Order - 1
  /\ \A d \in 1 .. Order - 1 : d \in EvenRoots <=> Order - d \notin EvenRoots
  /\ \A f \in Fp : Hkdf[f] \in [0 .. 3 -> Nat]

(* psa_export_public_key(): the point of a scalar.  External. *)
Point(d) == [x |-> IF d < Order - d THEN d ELSE Order - d, even |-> d \in EvenRoots]

-----------------------------------------------------------------------------
(* id.c *)

(* take_hex256(): 64 hex characters. *)
take_hex256(v) == v \notin {Missing, Malformed}

(* hkdf_sha256(): the candidate a fingerprint yields under a counter. *)
hkdf_sha256(fp, k) == Hkdf[fp][k]

(* public_from_scalar(): PSA takes no scalar outside the group. *)
Usable(c) == 0 < c /\ c < Order
scalar_negate(d) == Order - d

(* derive_identity_key(): the counters whose candidate PSA can take, and   *)
(* the key that one of them leads to, on the even root.                    *)
Counters(fp) == {k \in 0 .. 3 : Usable(hkdf_sha256(fp, k))}
DerivedKey_raw(fp, k) == hkdf_sha256(fp, k)     \* mutant: not canonicalised
DerivedKey(fp, k) ==
  LET d == hkdf_sha256(fp, k) IN IF Point(d).even THEN d ELSE scalar_negate(d)

document_pi_ignored(given, derived) == TRUE     \* mutant: a pinned 'pi' is not compared
document_pi_matches(given, derived) ==
  given = Missing \/ (take_hex256(given) /\ given = derived)

(* load_identity(): is there a fingerprint to derive from? *)
Provisioned(file) ==
  file \notin {NoFile, Unreadable, NotObject} /\ take_hex256(file.fp)

-----------------------------------------------------------------------------
(* crypto.c: sign, verify, pin *)

crypto_service_public_key(key) == Point(key)
crypto_service_sign(key, msg) == [by |-> key, msg |-> msg]
crypto_verify_message(pub, msg, sig) == crypto_service_public_key(sig.by) = pub /\ sig.msg = msg
crypto_pi_matches(pub, pi) == pub.x = pi
proof_of_payload(path, payload) == <<payload>>     \* mutant: the path is not signed

(* Path, newline, payload: a pair, as long as the path holds no newline    *)
(* and the whole fits the buffer.                                          *)
crypto_proof_message(path, payload) == <<path, payload>>

(* The fields a proof lacks, or that do not decode, are Missing. *)
proof_fields(proof) ==
  proof # NoProof /\ proof.pi # Missing /\ proof.pk # Missing /\ proof.sig # Missing

crypto_verify_proof(proof, expected, msg) ==
  /\ proof_fields(proof)
  /\ crypto_pi_matches(proof.pk, expected)
  /\ crypto_pi_matches(proof.pk, proof.pi)
  /\ crypto_verify_message(proof.pk, msg, proof.sig)

-----------------------------------------------------------------------------
(* crypto.c: the cipher table and the answers *)

(* crypto_service_create(): the table, in encryptIndex order. *)
Modes == <<"cb", "cf", "cc", "gc">>
CipherRow(ei, nc, mc) == [ei |-> ei, nc |-> nc, mc |-> mc, supported |-> nc # "bf"]
Ciphers ==
  [i \in 1 .. 4 |-> CipherRow(i, "ae", Modes[i])]
  \o [i \in 1 .. 4 |-> CipherRow(i + 4, "ar", Modes[i])]
  \o <<CipherRow(9, "bf", "cb"), CipherRow(10, "bf", "cc"), CipherRow(11, "bf", "cf"), CipherRow(12, "bf", "gc")>>
IdentityEi == 100

(* parse_ei(), find_cipher(): the row with the index, or none. *)
find_cipher(ei) == SelectSeq(Ciphers, LAMBDA c : c.ei = ei)

(* psa_cipher_key_type(), psa_cipher_algorithm(), import_key() *)
import_key(c) == c.nc = "ar" => HasAria

(* hex_decode(): how many bytes, or -1.  Each pair is read with "%2x",     *)
(* which is content with one digit: text is hex, loose (some pair has only *)
(* its first digit) or bad.                                                *)
hex_decode(t, cap) == IF t.text = "bad" \/ t.len > cap THEN -1 ELSE t.len

Answers(word) == << <<word, Empty>> >>
Plaintext(t) == << <<"plaintext", t.len>> >>

(* decrypt_aead(): nonce (12), ciphertext and tag (16), and the tag holds. *)
decrypt_aead(c, t) ==
  IF t.len <= 28 THEN Answers("error:invalid-parameters")
  ELSE IF ~import_key(c) THEN Answers("error:unsupported-mode")
  ELSE IF ~t.intact THEN Answers("error:authentication-failed")
  ELSE << <<"plaintext", t.len - 28>> >>

decrypt_block_or_feedback(c, t) ==
  IF c.mc = "cb" /\ t.len % 16 # 0 THEN Answers("error:invalid-parameters")
  ELSE IF ~import_key(c) THEN Answers("error:unsupported-cipher")
  ELSE Plaintext(t)

(* decrypt_error(), and the answer of crypto_on_get() *)
decrypt(c, t) ==
  IF ~c.supported THEN Answers("error:unsupported-cipher")
  ELSE IF hex_decode(t, MaxPayload) <= 0 THEN Answers("error:invalid-parameters")
  ELSE IF c.mc \in {"cc", "gc"} THEN decrypt_aead(c, t)
  ELSE decrypt_block_or_feedback(c, t)

(* crypto_identity_proof() *)
crypto_identity_proof(key, t) ==
  IF hex_decode(t, MaxPayload) <= 0 THEN Answers("error:bad-challenge")
  ELSE IF key = Missing THEN Answers("error:no-identity-key")
  ELSE LET pub == crypto_service_public_key(key)
       IN  << <<"pi", pub.x>>, <<"pk", pub>>, <<"sig", crypto_service_sign(key, t)>> >>

(* crypto_on_get(); ei is Missing when the query names none, and t is      *)
(* Missing when the request carries no payload.                            *)
crypto_on_get(key, ei, t) ==
  IF ei = IdentityEi
    THEN IF t = Missing THEN << <<"ei", ei>>, <<"ks", 32>>, <<"it", 256>>, <<"au", 64>> >>
         ELSE crypto_identity_proof(key, t)
  ELSE IF find_cipher(ei) = <<>> THEN Answers("error:unknown-ei")
  ELSE LET c == find_cipher(ei)[1] IN
       IF t = Missing
         THEN << <<"ei", ei>>, <<"nc", c.nc>>, <<"ks", 16>>, <<"mc", c.mc>> >>
         ELSE decrypt(c, t)
=================================================================================
