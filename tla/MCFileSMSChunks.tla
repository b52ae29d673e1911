-------------------------- MODULE MCFileSMSChunks --------------------------
(* Constant values with which TLC checks FileSMSChunks.                    *)
EXTENDS FileSMSChunks

\* One to eleven chunks each; no multiple of 29 KB.
SmallSizes == 1 .. 15

\* 29 KB are exactly 20 chunks.
WholeChunks == {29}

FirstFiveChunks == 0 .. 4
=============================================================================
