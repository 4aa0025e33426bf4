------------------------------ MODULE WasmBytes ------------------------------
(***************************************************************************)
(* Reading a WASM byte buffer as the runtime loader does it                *)
(* (src/compiler/src/wasm_runtime.c).  A buffer is a sequence of bytes    *)
(* (naturals below 256); a position is 0-based, as the C cursor is.       *)
(***************************************************************************)
EXTENDS Naturals, Sequences, SequencesExt

\* data[i]
ByteAt(b, i) == b[i + 1]

\* uleb128_to_uint(data, &cursor): the value and the cursor after it.  The
\* function lives in utils, outside src/; it is the standard unsigned
\* LEB128 decoding (7 bits per byte, low group first, high bit = more).
RECURSIVE UlebFrom(_, _, _, _)
UlebFrom(b, pos, shift, acc) ==
  LET x == ByteAt(b, pos)
  IN  IF x < 128 THEN [val |-> acc + x * 2^shift, next |-> pos + 1]
      ELSE UlebFrom(b, pos + 1, shift + 7, acc + (x - 128) * 2^shift)

UlebAt(b, pos) == UlebFrom(b, pos, 0, 0)

\* bh_min(len, cap)
Clamp(len, cap) == IF len < cap THEN len ELSE cap

\* !strncmp(data + pos, lit, n): the first n characters agree, comparison
\* ending early at the terminating NUL of the literal.  Only the first
\* min(n, |lit| + 1) characters are compared, so every prefix of lit, the
\* empty one included, compares equal.
NameIs(b, pos, lit, n) ==
  LET z == lit \o <<0>>
      m == IF n < Len(z) THEN n ELSE Len(z)
  IN  \A k \in 0 .. m - 1 : ByteAt(b, pos + k) = z[k + 1]

\* strncpy(dst, data + pos, len); dst[len] = '\0': the characters up to the
\* first NUL among the len copied.
CStrAt(b, pos, len) ==
  LET s == SubSeq(b, pos + 1, pos + len)
      z == SelectInSeq(s, LAMBDA c : c = 0)
  IN  IF z = 0 THEN s ELSE SubSeq(s, 1, z - 1)

\* *(i32 *)(data + pos): four bytes, little-endian, two's complement.
I32At(b, pos) ==
  LET hi == ByteAt(b, pos + 3)
  IN  ByteAt(b, pos) + 256 * ByteAt(b, pos + 1) + 65536 * ByteAt(b, pos + 2)
      + 16777216 * (IF hi < 128 THEN hi ELSE hi - 256)

\* A char* at data + pos printed with %s: the characters up to the first
\* NUL, or up to the end of the buffer.
CStrFrom(b, pos) == CStrAt(b, pos, Len(b) - pos)

=============================================================================
