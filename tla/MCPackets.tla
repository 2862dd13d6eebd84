------------------------------ MODULE MCPackets ------------------------------
(* Instances of Packets for TLC. *)
EXTENDS Packets

W(value) == [kind |-> "word", value |-> value]
S(value) == [kind |-> "str", value |-> value]

\* A command without data; one with words of one, two, four and eight bytes;
\* one with a tag between a string of three bytes and an empty one.
MCRequests ==
  { Command(U4(3), <<>>),
    Command(U4(66000), << W(<<7>>), W(U4(70000)), W(U2(300)), W(U8(70000)) >>),
    Command(U4(4), << S(<<76, 200, 59>>), W(<<7>>), S(<<>>) >>) }

\* What theorem FieldsReadRight asks of the commands.
ASSUME MCRequestsPlain == PlainRequests

MCIds == { U4(9) }

MCItems ==
  { Word(<<1>>), write_location(1, 300, 4, 5), write_str(<<66>>), write_utf(<<65, 200, 3000>>) }

=============================================================================
