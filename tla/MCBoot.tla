------------------------------- MODULE MCBoot -------------------------------
(***************************************************************************)
(* An instance of Boot for TLC: machines of 2 MB to 4 GB, halves of        *)
(* addresses with every byte at its least, its greatest and in between, a  *)
(* disk of bytes with four values.                                         *)
(***************************************************************************)
EXTENDS Boot

Low == 15360      \* the 15 MB below 16

\* The second number is in 64 KB, from 16 MB on.
MCE801 == {NULL, <<1024, 0>>, <<1083, 0>>, <<7168, 0>>} \union
          ({Low} \X {0, 256, 3871, 3872, 7936, 16128, 65279, 65280})
MCExt88 == {NULL, 1024, 3073, 64512}
MCKernelSize == {1, 30720, 200 * 512}

MCLoaderRead == {<<2, 2>>}
MCKernelRead == {0, 9, 27, 64, 120} \X {1, 3}

MCAddress == {<<0, 255>>, <<255, 0>>, <<256, 65535>>, <<49153, 5376>>, <<65535, 256>>}
MCEntryLow == {5376, 31744}
MCBeyond == {<<0, 65535>>, <<49152, 0>>}

=============================================================================
