---------------------------- MODULE MCCrashSweep ----------------------------
EXTENDS CrashSweep

\* Aligned in one page; from one page and sector into the next; a whole
\* sector; the whole device; misaligned; past the end; empty.
MCSpans == {<<0, 2>>, <<4, 4>>, <<6, 6>>, <<0, 12>>, <<1, 2>>, <<12, 2>>, <<2, 0>>}

\* Data that clears every byte, and data that leaves some of them.
MCData == {{}, {1, 4, 7, 9}}
=============================================================================
