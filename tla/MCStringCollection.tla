------------------------- MODULE MCStringCollection -------------------------
(* A small address space: pages of 8 bytes, the image at 8, the stack at 24, the heap at  *)
(* 48, and nothing at 0 and 40.                                                           *)
EXTENDS StringCollection

\* A wide string and a string at a border of pages; the rest is zero.
ImageBytes == <<65, 0, 66, 0, 65, 0, 66, 0, 0, 0, 200, 65, 66, 65, 66, 65,
                66, 0, 0, 0, 0, 0, 0, 0, 0, 0, 0, 0, 0, 0, 0, 0>>
MCImage == [a \in 8 .. 39 \cup 48 .. 55 |-> IF a < 40 THEN ImageBytes[a - 7] ELSE 0]

Bytes(s) == [i \in 0 .. Len(s) - 1 |-> s[i + 1]]

\* A string with a tab and spaces around, two that differ in a space, four letters without
\* a NUL, strings that end at the end of a region, and a store to where nothing is mapped.
MCStoreMenu ==
    {<<24, Bytes(<<32, 9, 65, 32, 66, 9, 32, 0>>)>>,
     <<24, Bytes(<<32, 65, 66, 65, 66, 0, 65, 66>>)>>,
     <<28, Bytes(<<65, 66, 65, 66>>)>>,
     <<32, Bytes(<<65, 66, 0, 66, 65, 66, 65, 0>>)>>,
     <<40, Bytes(<<65, 66>>)>>,
     <<48, Bytes(<<66, 65, 66, 32, 0, 66, 0, 0>>)>>}

MCRspMenu == {24, 27, 40}

MCCallMenu ==
    {<< <<"memcpy">>, <<48, 11, 7>> >>,
     << <<"memmove">>, <<26, 25, 6>> >>,
     << <<"RtlMoveMemory">>, <<52, 24, 7>> >>,
     << <<"memset">>, <<24, 321, 4>> >>,
     << <<"", "memset">>, <<24, 65, 13>> >>,
     << <<"msvcrt", "memcmp">>, <<24, 48, 4>> >>,
     << <<"", "", "strlen">>, <<24, 0, 0>> >>,
     << <<"KERNEL32", "lstrlenW">>, <<8, 0, 0>> >>,
     << <<"strcpy">>, <<48, 24, 0>> >>,
     << <<"strcpy">>, <<25, 24, 0>> >>,
     << <<"wcscpy">>, <<26, 8, 0>> >>,
     << <<"strncpy">>, <<32, 24, 8>> >>,
     << <<"wcsncpy">>, <<28, 8, 3>> >>,
     << <<"lstrcpynA">>, <<48, 24, 6>> >>,
     << <<"strcat">>, <<24, 24, 0>> >>,
     << <<"strcat">>, <<48, 19, 0>> >>,
     << <<"wcscat">>, <<24, 8, 0>> >>,
     << <<"RtlZeroMemory">>, <<24, 4, 0>> >>,
     << <<"RtlFillMemory">>, <<30, 5, 66>> >>,
     << <<"GetProcessHeap">>, <<0, 0, 0>> >>,
     << <<"HeapFree">>, <<0, 0, 48>> >>,
     << <<"exit">>, <<24, 0, 0>> >>}

\* Tail calls, and functions of the image that are only entered by jumps.
MCJumpMenu == {<< <<"memset">>, <<24, 65, 13>> >>, << <<"msvcrt", "strlen">>, <<28, 0, 0>> >>}

MCSettings ==
    {[tracking |-> TRUE, registers |-> FALSE, stubs |-> TRUE],
     [tracking |-> FALSE, registers |-> TRUE, stubs |-> TRUE],
     [tracking |-> FALSE, registers |-> FALSE, stubs |-> FALSE]}
=============================================================================
