----------------------------- MODULE ShadowJson -----------------------------
(* The JSON documents of aws_iot_shadow_json.c, by their lengths: what each  *)
(* snprintf is allowed to write, what it writes, and what it returns.  A     *)
(* document is [len, rem, rc, past]: the length of the string, the room the  *)
(* next call believes in, the code returned, and whether some call wrote     *)
(* beyond the buffer.  An item is [key, value]: the characters of "key": and *)
(* of the value with its comma.                                              *)
EXTENDS Integers, Sequences

CONSTANT SizeModulus   \* sizes are size_t: they wrap at this bound

\* The least SIZE_MAX that C allows is 65535.
ASSUME JsonAssumption == SizeModulus \in Nat /\ SizeModulus >= 65536

\* snprintf(text + at, rem, ...) of n characters, checked with
\* checkReturnValueOfSnPrintf.
Printed(doc, at, rem, n, size) ==
  LET stored == IF n < rem THEN n ELSE rem - 1
  IN [len  |-> IF rem = 0 THEN doc.len ELSE at + stored,
      rem  |-> rem,
      rc   |-> IF n >= rem THEN "SHADOW_JSON_BUFFER_TRUNCATED" ELSE "SUCCESS",
      past |-> doc.past \/ (rem > 0 /\ at + stored + 1 > size)]

\* maxSizeOfJsonDocument - strlen(pJsonDocument), as the code computes it.
Room(doc, size) == (size - doc.len) % SizeModulus

Failed(doc, code) == [doc EXCEPT !.rc = code]

\* Print over the last back characters, with the room that is left.
Appended(doc, back, n, size) ==
  LET rem == Room(doc, size)
  IN IF doc.rc # "SUCCESS" THEN doc
     ELSE IF rem <= 1 THEN Failed(doc, "SHADOW_JSON_ERROR")
     ELSE Printed(doc, doc.len - back, rem, n, size)

\* convertDataToString: a value, with the room its caller believes in.
WithValue(doc, n, size) == Printed(doc, doc.len, doc.rem, n, size)

Opened(size) ==
  Printed([len |-> 0, rem |-> size, rc |-> "SUCCESS", past |-> FALSE], 0, size, 10, size)

\* A key goes into the room that is left; its value is printed with the room
\* there was before the key.
AddItem(doc, item, size) ==
  LET keyed == Appended(doc, 0, item.key, size)
  IN IF keyed.rc # "SUCCESS" THEN keyed ELSE WithValue(keyed, item.value, size)

\* The items of a section, one after the other.
Filled(doc, items, size) ==
  LET filled[n \in 0..Len(items)] ==
        IF n = 0 THEN doc ELSE AddItem(filled[n - 1], items[n], size)
  IN filled[Len(items)]

FaultyWithSection(doc, header, items, size) ==  \* the last comma stays
  LET filled == Filled(Appended(doc, 0, header, size), items, size)
  IN IF filled.rc # "SUCCESS" THEN filled
     ELSE Printed(filled, filled.len, filled.rem, 2, size)

\* A section: its header, its items, and the two characters that replace the
\* last comma, printed with the room there was before the last key.
WithSection(doc, header, items, size) ==
  LET filled == Filled(Appended(doc, 0, header, size), items, size)
  IN IF filled.rc # "SUCCESS" THEN filled
     ELSE Printed(filled, filled.len - 1, filled.rem, 2, size)

WithReported(doc, items, size) == WithSection(doc, 12, items, size)
WithDesired(doc, items, size) == WithSection(doc, 11, items, size)

\* Replace the last comma, then the client token and the end.
Finalized(doc, token, size) ==
  Appended(Appended(Appended(doc, 1, 18, size), 0, token, size), 0, 2, size)

=============================================================================
