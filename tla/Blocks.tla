-------------------------------- MODULE Blocks --------------------------------
(***************************************************************************)
(* Nano blocks as values.                                                  *)
(*                                                                         *)
(* A block is a record of its fields.  Keys, accounts, balances and hashes *)
(* are symbols; a private key is named by the account it belongs to.  What *)
(* the crypto library computes over a block depends on what it hashes: all *)
(* fields but three (F_BLOCK_TRANSFER_SIGNABLE_SZ ends before the          *)
(* signature).  Different contents have different hashes.                  *)
(***************************************************************************)

\* (mutant) The work is part of what is hashed.
NotHashed_but_work == {"signature", "prefixes"}

NotHashed == {"signature", "prefixes", "work"}

\* f_nano_get_block_hash
Hash(b) == [f \in DOMAIN b \ NotHashed |-> b[f]]

\* 64 zero bytes: the signature of a block nobody has signed.
Zeroes == [key |-> "zeroes"]

\* Bytes that are no signature of anything.
Scribble == [key |-> "scribble"]

\* What f_sign_data makes of a private key and the hash of a block.  The public
\* key it is given is the block's account, which the hash covers.
Signature(key, b) == [key |-> key, of |-> Hash(b)]

\* f_verify_signed_block: an error for a signature of zeroes.
Verify(b) ==
    CASE b.signature = Zeroes -> "error"
      [] b.signature = Signature(b.account, b) -> "valid"
      [] OTHER -> "invalid"

\* No work has been calculated.
NoWork == [nonce |-> 0]

\* f_nano_pow: a nonce for a hash.
Work(h) == [nonceFor |-> h]

==============================================================================
