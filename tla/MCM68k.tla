-------------------------------- MODULE MCM68k --------------------------------
(* Instances of M68k for TLC: a byte has six bits, so that a long has 24.  *)
EXTENDS M68k

\* Registers and memory with small and large numbers of both signs in them, in
\* either mode, with a request waiting or none.
Sample(k, s, mask, level) ==
    [dar |-> [r \in 0 .. 15 |-> CASE r % 4 = 0 -> r * 5 + k
                                  [] r % 4 = 1 -> 2 ^ 23 + 77 * r * k
                                  [] r % 4 = 2 -> Span(Long) - 1 - k * r
                                  [] r % 4 = 3 -> 40000 * r * (k + 1) + 8],
     sp |-> [b \in BOOLEAN |-> IF b THEN 64 ELSE Span(Long) - 40],
     pc |-> 20 * k, ppc |-> 0,
     x |-> k % 2 = 0, n |-> k % 3 = 0, z |-> k % 2 = 1, v |-> k % 3 = 1, c |-> k % 3 = 2,
     s |-> s, t |-> FALSE, mask |-> mask, level |-> level, stopped |-> {}, left |-> 0,
     mem |-> [a \in 0 .. MemSize - 1 |-> (a * a * 11 + 7 * a + k * (a \div 3 + 13)) % Radix]]

MCSamples == {Sample(0, TRUE, 7, 0), Sample(1, TRUE, 3, 3), Sample(2, FALSE, 0, 0),
              Sample(3, FALSE, 5, 2), Sample(4, TRUE, 0, 0), Sample(5, FALSE, 7, 6)}

\* One slice of one instruction and one request, in either order; or a reset in
\* place of the slice.
MCBudgets == {[execute |-> 1, set_irq |-> 1, reset |-> 0],
              [execute |-> 0, set_irq |-> 1, reset |-> 1]}
=============================================================================
