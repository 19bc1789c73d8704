---------------------------- MODULE MCDmaSession ----------------------------
(* DmaSession for TLC: three kinds of clients and which engines they use.  *)
EXTENDS DmaSession, TLC

CONSTANTS p1, p2, p3, \* model values: the clients
          duplex,     \* clients like the DMA test of litepcie_util.c: both
          play,       \* clients like "litepcie_test play": the reader
          record      \* clients like "litepcie_test record": the writer

MCClients == duplex \cup play \cup record

MCUse == [c \in MCClients |->
            (IF c \in duplex \cup play THEN {"reader"} ELSE {}) \cup
            (IF c \in duplex \cup record THEN {"writer"} ELSE {})]

\* The clients of one kind are interchangeable.
Interchange == Permutations(duplex)
=============================================================================
