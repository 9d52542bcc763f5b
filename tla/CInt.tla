-------------------------------- MODULE CInt -------------------------------
(***************************************************************************)
(* C's bit operators on a two's complement integer of 2^bits values, by    *)
(* way of the unsigned value with the same bits.  The models bind the      *)
(* operator parameters of module Cpu to these.                             *)
(***************************************************************************)
EXTENDS Integers, Bitwise

Unsigned(v, bits) == v % 2 ^ bits
Signed(v, bits)   == ((v + 2 ^ (bits - 1)) % 2 ^ bits) - 2 ^ (bits - 1)

CAnd(a, b, bits) == Signed(Unsigned(a, bits) & Unsigned(b, bits), bits)
CXor(a, b, bits) == Signed(Unsigned(a, bits) ^^ Unsigned(b, bits), bits)

CShiftLeft(a, k, bits)  == Signed(Unsigned(a, bits) * 2 ^ k, bits)
CShiftRight(a, k, bits) == Signed(shiftR(Unsigned(a, bits), k), bits)

=============================================================================
