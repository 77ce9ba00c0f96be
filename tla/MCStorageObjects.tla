-------------------------- MODULE MCStorageObjects --------------------------
(* A block in a B2 bucket, one in an S3 bucket and a version in a directory. *)
EXTENDS StorageObjects, TLC

CONSTANTS kb, ks, vf, text, noise

MCModule == (kb :> "b2") @@ (ks :> "s3") @@ (vf :> "file")
MCChain == <<"zstd", "aes">>
Clients == Permutations(Client)
MCWeight == (text :> 3) @@ (noise :> 2)
=============================================================================
