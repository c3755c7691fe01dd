-------------------------------- MODULE Crypto --------------------------------
(***************************************************************************)
(* Keys, nonces, tokens and certificates (core/src/crypto): what each      *)
(* function accepts.  A key is a record with its owner and the identifier  *)
(* of its signature method, "ed25519" or "rsa-pss"; hashing and signing    *)
(* are injective, so that a digest or a signature is what it was made of.  *)
(***************************************************************************)
EXTENDS Integers, Sequences

NoKey == [id |-> "none", kind |-> "none"]

\* The keys this program makes are ed25519 keys.
generate_key(owner) == [id |-> owner, kind |-> "ed25519"]

\* A key read from its PEM text under an identifier: only of a known kind.
parse_public_key(key, identifier) ==
    IF identifier = key.kind /\ identifier \in {"ed25519", "rsa-pss"}
    THEN key ELSE NoKey

sha256(data) == <<"sha256", data>>
sign(key, digest) == <<"signed", key, digest>>

-----------------------------------------------------------------------------
(* Nonces: 32 random bytes, accepted with 16 to 128.                       *)

generate_nonce(owner) == [of |-> owner, length |-> 32]
validate_nonce(nonce) == nonce.length >= 16 /\ nonce.length <= 128

-----------------------------------------------------------------------------
(* Tokens: method, hash of key and salt, salt, signature method, signature.*)

generate_token_nonce(key, salt) ==
    LET digest == sha256(<<key, salt>>)
    IN  <<"sha256", digest, salt, "ed25519", sign(key, digest)>>

extract_signature_identifier(token) == token[4]

\* verify_token_with_result: salted says that the salt is the expected one.
verify_token(key, token, salted) ==
    /\ token[1] = "sha256"
    /\ token[4] = key.kind
    /\ salted
    /\ token[2] = sha256(<<key, token[3]>>)
    /\ token[5] = sign(key, token[2])

verify_token_nonce(key, token, nonce) ==
    verify_token(key, token, token[3] = nonce)

-----------------------------------------------------------------------------
(* Certificates: the public key, whether now is in the validity period and *)
(* the key that signed it.                                                 *)

certificate(key) == [key |-> key, valid |-> TRUE, signer |-> key]

public_key_from_cert(cert) == cert.key

\* verify_cert_from_cert; expected is NoKey when no key is given.
verify_cert(cert, expected) ==
    /\ cert.valid
    /\ expected = NoKey \/ cert.key = expected
    /\ cert.signer = cert.key
=============================================================================
