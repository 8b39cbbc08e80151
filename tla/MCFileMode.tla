----------------------------- MODULE MCFileMode -----------------------------
\* Every type of file, all special bits, and a choice of permission bits.
EXTENDS FileMode

MCModes == {4096 * t + 512 * s + p : t \in {FIFO, CHR, DIR, BLK, REG, LNK, SOCK},
                                     s \in 0..7, p \in {0, 1, 8, 64, 73, 420, 493, 511}}

\* What becomes of large settings is seen with an unsigned int of 20 bits:
\* -1, -56, -19999, -88999, and the least and the greatest int.
MCSettings == {0, 7, 70, 89, 600, 644, 699, 755, 777, 778, 799, 1000}
                \cup {U32 - n : n \in {1, 56, 19999, 88999, U32 \div 2, U32 \div 2 + 1}}
=============================================================================
