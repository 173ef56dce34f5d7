---------------------------- MODULE SerialDedup ----------------------------
(***************************************************************************)
(* What the deduplicating compressor (samples/dedup) promises: the serial  *)
(* build, SerialIntegratedPipeline, which takes the chunks of the input    *)
(* one after another, looks each up in the cache and writes its data the   *)
(* first time its contents occur and their fingerprint afterwards.  The    *)
(* threaded build, Dedup, implements it.                                   *)
(*                                                                         *)
(* The input is the sequence of the contents of its chunks: where Rabin    *)
(* fingerprints cut is given.  A record of the output carries the contents *)
(* its data decompress to or its fingerprint stands for: compression and   *)
(* SHA1 are taken to be injective.                                         *)
(***************************************************************************)
EXTENDS Naturals, Sequences

CONSTANT Files          \* the inputs, sequences of contents

VARIABLES
    file,               \* the input
    cache,              \* the contents in the hash table
    out                 \* the records written to the output file

vars == <<file, cache, out>>

Data(c)        == [type |-> "compress", of |-> c]
Fingerprint(c) == [type |-> "fingerprint", of |-> c]

Init == file \in Files /\ cache = {} /\ out = <<>>

\* sub_Deduplicate, sub_Compress and write_chunk_to_file of the next chunk.
NextChunk ==
    /\ Len(out) < Len(file)
    /\ LET c == file[Len(out) + 1] IN
       /\ out' = Append(out, IF c \in cache THEN Fingerprint(c) ELSE Data(c))
       /\ cache' = cache \cup {c}
    /\ UNCHANGED file

Spec == Init /\ [][NextChunk]_vars

-----------------------------------------------------------------------------
(* The decoder: it puts the contents of every data record into its own     *)
(* cache and exits with an error at a fingerprint it does not find there.  *)

DecodedCache(o, n) == {o[i].of : i \in {j \in 1 .. n : o[j].type = "compress"}}

DecodeError(o) ==
    \E n \in DOMAIN o : o[n].type = "fingerprint" /\ o[n].of \notin DecodedCache(o, n - 1)

Decode(o) == [n \in DOMAIN o |-> o[n].of]

\* What is written so far decodes to the beginning of the input: no
\* fingerprint refers to data that come later in the file.
OutputDecodes == ~DecodeError(out) /\ Decode(out) = SubSeq(file, 1, Len(out))
=============================================================================
