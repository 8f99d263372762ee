----------------------------- MODULE MCDigests -----------------------------
(***************************************************************************)
(* Instance of Digests: the examples of FIPS 180-2 appendix A and the      *)
(* empty message, files of the lengths about which the padding turns, one  *)
(* longer than the buffer of file_digest(); and every file of up to seven  *)
(* bytes "abcabca" cut into blocks of up to three.                         *)
(***************************************************************************)
EXTENDS Digests

Abc == <<97, 98, 99>>

\* "abcdbcde...nopq", 56 bytes.
Alphabet == [k \in 1..56 |-> 97 + ((k - 1) \div 4) + ((k - 1) % 4)]

Repeated(n) == [k \in 1..n |-> 97 + ((k - 1) % 3)]

MCReadFiles ==
  {Repeated(n) : n \in {0, 3, 54, 55, 56, 63, 64, 65, 118, 119, 120, 1024, 1030}} \cup {Alphabet}
MCMappedFiles == {Repeated(n) : n \in 0..7}
MCFileSizes == {Len(c) : c \in MCMappedFiles}

\* da39a3ee 5e6b4b0d 3255bfef 95601890 afd80709,
\* a9993e36 4706816a ba3e2571 7850c26c 9cd0d89d,
\* 84983e44 1c3bd26e baae4aa1 f95129e5 e54670f1.
MCKnown ==
  {[message |-> <<>>,
    words |-> <<<<55865, 41966>>, <<24171, 19213>>, <<12885, 49135>>, <<38240, 6288>>,
                <<45016, 1801>>>>],
   [message |-> Abc,
    words |-> <<<<43417, 15926>>, <<18182, 33130>>, <<47678, 9585>>, <<30800, 49772>>,
                <<40144, 55453>>>>],
   [message |-> Alphabet,
    words |-> <<<<33944, 15940>>, <<7227, 53870>>, <<47790, 19105>>, <<63825, 10725>>,
                <<58694, 28913>>>>]}
=============================================================================
