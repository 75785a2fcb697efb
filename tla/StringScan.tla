----------------------------- MODULE StringScan -----------------------------
(***************************************************************************)
(* The string scanner: scan_buffer_for_strings and push_string of          *)
(* emulator.cpp with strings.hpp.  A buffer is a function from 0 .. n - 1  *)
(* to bytes, a string a sequence of bytes.  The list of found strings is a *)
(* set of records; the address of the instruction and the hash are left    *)
(* out, because two entries are equal exactly when their data is.          *)
(***************************************************************************)
EXTENDS Integers, SequencesExt

\* strings.hpp: printable ASCII and \t, \n, \r.
is_ascii_printable(c) == c \in 32 .. 126 \cup {9, 10, 13}
is_utf16_printable(w) == w \in 32 .. 126 \cup {9, 10, 13}
is_trim_space(c) == c \in {32} \cup 9 .. 13

read_u16le(buf, i) == buf[i] + 256 * buf[i + 1]
utf16le_to_ascii(buf, i, chars) == [k \in 1 .. chars |-> buf[i + 2 * (k - 1)]]

trim(s) ==
    LET kept == {k \in DOMAIN s : ~is_trim_space(s[k])}
    IN IF kept = {} THEN <<>> ELSE SubSeq(s, Min(kept), Max(kept))

\* A backslash and a letter: \a \b \t \n \v \f \r.
Letter == [c \in 7 .. 13 |-> <<97, 98, 116, 110, 118, 102, 114>>[c - 6]]
Mut_escape_control_chars(s) ==
    FlattenSeq([k \in DOMAIN s |-> IF s[k] \in {10, 13} THEN <<92, Letter[s[k]]>> ELSE <<s[k]>>])

escape_control_chars(s) ==
    FlattenSeq([k \in DOMAIN s |-> IF s[k] \in 7 .. 13 THEN <<92, Letter[s[k]]>> ELSE <<s[k]>>])

Mut_push_string(list, found) ==
    LET data == trim(found.data)
    IN IF data = <<>> \/ \E e \in list : e.data = data THEN list
       ELSE list \cup {[ptr |-> found.ptr, data |-> escape_control_chars(data)]}

push_string(list, found) ==
    LET data == trim(escape_control_chars(found.data))
    IN IF data = <<>> \/ \E e \in list : e.data = data THEN list
       ELSE list \cup {[ptr |-> found.ptr, data |-> data]}

ascii_end(buf, n, i) == Min({j \in i .. n : j = n \/ ~is_ascii_printable(buf[j])})
utf16_end(buf, n, i) ==
    Min({j \in i .. n : /\ (j - i) % 2 = 0
                        /\ j + 1 >= n \/ ~is_utf16_printable(read_u16le(buf, j))})

\* One turn of the loop over the n bytes of buf, at byte p.i.
scan_turn(base, buf, n, p) ==
    IF p.i >= n THEN p
    ELSE IF is_ascii_printable(buf[p.i])
    THEN LET end == ascii_end(buf, n, p.i)
             found == [ptr |-> base + p.i, data |-> [k \in 1 .. end - p.i |-> buf[p.i + k - 1]]]
         IN [i |-> end + 1,
             list |-> IF end - p.i >= 4 /\ end < n /\ buf[end] = 0
                      THEN push_string(p.list, found) ELSE p.list]
    ELSE IF p.i + 1 < n /\ is_utf16_printable(read_u16le(buf, p.i))
    THEN LET end == utf16_end(buf, n, p.i)
             chars == (end - p.i) \div 2
             found == [ptr |-> base + p.i, data |-> utf16le_to_ascii(buf, p.i, chars)]
         IN [i |-> end + 2,
             list |-> IF chars >= 4 /\ end + 1 < n /\ buf[end] = 0 /\ buf[end + 1] = 0
                      THEN push_string(p.list, found) ELSE p.list]
    ELSE [p EXCEPT !.i = p.i + 1]

\* Every turn gets on by a byte or more: n turns read all of them.
scanning(list, base, buf, n) ==
    LET after[t \in 0 .. n] == IF t = 0 THEN [i |-> 0, list |-> list]
                               ELSE scan_turn(base, buf, n, after[t - 1])
    IN after

scan_buffer_for_strings(list, base, buf, n) == scanning(list, base, buf, n)[n].list

-----------------------------------------------------------------------------
(* What the list is to hold.                                               *)

\* The bytes from p are a string of m: at least four printable bytes and a NUL.
\* p + len is the address of the NUL.
IsString(m, p, len) ==
    /\ len >= 4
    /\ p .. p + len \subseteq DOMAIN m
    /\ \A a \in p .. p + len - 1 : is_ascii_printable(m[a])
    /\ m[p + len] = 0

\* A string is shown without the spaces around it and with its control characters escaped;
\* tabs and line ends around it stay.
Shown(m, p, len) ==
    LET solid == {a \in p .. p + len - 1 : m[a] # 32}
    IN IF solid = {} THEN <<>>
       ELSE escape_control_chars([k \in 1 .. Max(solid) - Min(solid) + 1 |-> m[Min(solid) + k - 1]])
=============================================================================
