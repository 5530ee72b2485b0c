----------------------------- MODULE Marshalling ----------------------------
(***************************************************************************)
(* The data of one call on its way: a server registers a function, a client*)
(* locates and calls it, the server runs a skeleton and the outputs come   *)
(* back.  Argument types are the ints of rpc.h, messages the bytes the     *)
(* Serializers make of them.                                               *)
(***************************************************************************)
EXTENDS Integers, Sequences, SequencesExt

CONSTANTS
  Function,   \* what can be registered and called: a name and parameters
  Return,     \* what skeletons return
  Host, Port  \* where the server is: bytes and a number

\* Lengths are ints; those of arrays, and ports, have 16 bits.
MaxInt == 2147483647
MaxShort == 65535

\* A parameter as its programmer means it; length 0 is a scalar.
Direction == {"input", "output", "both"}
DataType == {"char", "short", "int", "long", "double", "float"}
Parameter == [direction : Direction, type : DataType, length : 0 .. MaxShort]

ASSUME MarshallingAssumption ==
  /\ \A f \in Function : /\ f.name \in Seq(0 .. 255) /\ f.params \in Seq(Parameter)
                         /\ Len(f.name) <= MaxInt /\ Len(f.params) <= MaxInt
  /\ Return \subseteq Int
  /\ Host \in Seq(0 .. 255) /\ Len(Host) <= MaxInt /\ Port \in 1 .. MaxShort

VARIABLES
  served, called,   \* the functions of the server and of the client
  restarted,        \* the server at the address is one that serves nothing
  step,             \* how far the call is
  wire,             \* the message on its way
  signatures,       \* what the binder has registered
  ran,              \* whether the skeleton ran
  serverArgs,       \* the arguments at the server
  returned,         \* what the skeleton returned
  args,             \* the arguments at the client
  result            \* what rpcCall returns

vars == <<served, called, restarted, step, wire, signatures, ran,
          serverArgs, returned, args, result>>

-----------------------------------------------------------------------------
(* arg.cc.  An argument type is an int: direction, data type and length.   *)

TypeNumber(type) ==
  CASE type = "char" -> 1 [] type = "short" -> 2 [] type = "int" -> 3
    [] type = "long" -> 4 [] type = "double" -> 5 [] type = "float" -> 6

\* 1 << ARG_INPUT is the sign bit.
ArgType(p) ==
  (CASE p.direction = "input" -> -2 [] p.direction = "output" -> 1
     [] p.direction = "both" -> -1) * 1073741824
  + TypeNumber(p.type) * 65536 + p.length

ArgTypes(f) == [i \in 1 .. Len(f.params) + 1 |->
                  IF i <= Len(f.params) THEN ArgType(f.params[i]) ELSE 0]

GetArgType(t) == (t \div 65536) % 256
LengthField(t) == t % 65536
GetArgLength(t) == IF LengthField(t) = 0 THEN 1 ELSE LengthField(t)
GetSizeOfArgType(type) == <<1, 2, 4, 8, 8, 4>>[type]
DirectionBits(t) == (t \div 1073741824) % 4
IsOnlyInput(t) == DirectionBits(t) = 2
IsOnlyOutput(t) == DirectionBits(t) = 1
IsInputOutput(t) == DirectionBits(t) = 3

NumberOfArgs(types) ==
  CHOOSE n \in 0 .. Len(types) - 1 :
    types[n + 1] = 0 /\ \A i \in 1 .. n : types[i] # 0

NBytes(t) == GetSizeOfArgType(GetArgType(t)) * GetArgLength(t)

-----------------------------------------------------------------------------
(* signature.cc: array lengths do not matter, being an array does.         *)

\* Mutant: a scalar is an array of one.
SignatureOfLengths(name, types) ==
  <<name, [i \in 1 .. NumberOfArgs(types) |->
     <<GetArgLength(types[i]) = 1, DirectionBits(types[i]), GetArgType(types[i])>>]>>

SignatureOf(name, types) ==
  <<name, [i \in 1 .. NumberOfArgs(types) |->
     <<IF LengthField(types[i]) = 0 THEN "SCALAR" ELSE "ARRAY",
       CASE IsOnlyInput(types[i]) -> "INPUT" [] IsOnlyOutput(types[i]) -> "OUTPUT"
         [] IsInputOutput(types[i]) -> "BOTH",
       GetArgType(types[i])>>]>>

-----------------------------------------------------------------------------
(* protocol_macros and the Serializers.  A buffer is a sequence of bytes;  *)
(* positions count from 0.                                                 *)

RegisterTag == 0
LocateRequestTag == 3
LocateSuccessTag == 4
LocateFailureTag == 5
ExecuteTag == 6
ExecuteFailureTag == 7

LocateFailureStatus == -1005
UnexpectedMessage == -1003

EncodeInteger(x) ==
  <<x % 256, (x \div 256) % 256, (x \div 65536) % 256, (x \div 16777216) % 256>>

\* Mutant: the lowest byte is a signed char.
DecodeIntegerSigned(b, pos) ==
  LET signed(x) == IF x > 127 THEN x - 256 ELSE x
  IN signed(b[pos + 1]) + b[pos + 2] * 256 + b[pos + 3] * 65536
       + signed(b[pos + 4]) * 16777216

DecodeInteger(b, pos) ==
  LET signed(x) == IF x > 127 THEN x - 256 ELSE x
  IN b[pos + 1] + b[pos + 2] * 256 + b[pos + 3] * 65536
       + signed(b[pos + 4]) * 16777216

EncodeString(s) == EncodeInteger(Len(s)) \o s
DecodeString(b, pos) == SubSeq(b, pos + 5, pos + 4 + DecodeInteger(b, pos))
AfterString(b, pos) == pos + 4 + DecodeInteger(b, pos)

EncodeTypes(types) ==
  LET n == NumberOfArgs(types)
  IN EncodeInteger(n) \o FlattenSeq([i \in 1 .. n |-> EncodeInteger(types[i])])
DecodeTypes(b, pos) ==
  LET n == DecodeInteger(b, pos)
  IN [i \in 1 .. n + 1 |-> IF i <= n THEN DecodeInteger(b, pos + 4 * i) ELSE 0]
AfterTypes(b, pos) == pos + 4 + 4 * DecodeInteger(b, pos)

\* The bytes of argument i after those of the ones before.
DecodeArgs(b, pos, types) ==
  LET start[i \in 1 .. NumberOfArgs(types) + 1] ==
        IF i = 1 THEN pos ELSE start[i - 1] + NBytes(types[i - 1])
  IN [i \in 1 .. NumberOfArgs(types) |-> SubSeq(b, start[i] + 1, start[i + 1])]

Register(host, port, name, types) ==
  <<RegisterTag>> \o EncodeString(host) \o EncodeInteger(port)
    \o EncodeString(name) \o EncodeTypes(types)

DecodeRegister(b) ==
  LET port == AfterString(b, 1)
  IN [host |-> DecodeString(b, 1), port |-> DecodeInteger(b, port),
      name |-> DecodeString(b, port + 4),
      types |-> DecodeTypes(b, AfterString(b, port + 4))]

LocateRequest(name, types) ==
  <<LocateRequestTag>> \o EncodeString(name) \o EncodeTypes(types)

DecodeLocateRequest(b) ==
  [name |-> DecodeString(b, 1), types |-> DecodeTypes(b, AfterString(b, 1))]

LocateSuccess(host, port) ==
  <<LocateSuccessTag>> \o EncodeString(host) \o EncodeInteger(port)

DecodeLocateSuccess(b) ==
  [host |-> DecodeString(b, 1), port |-> DecodeInteger(b, AfterString(b, 1))]

Execute(name, types, data) ==
  <<ExecuteTag>> \o EncodeString(name) \o EncodeTypes(types)
    \o FlattenSeq([i \in 1 .. NumberOfArgs(types) |-> SubSeq(data[i], 1, NBytes(types[i]))])

DecodeExecute(b) ==
  LET types == DecodeTypes(b, AfterString(b, 1))
  IN [name |-> DecodeString(b, 1), types |-> types,
      args |-> DecodeArgs(b, AfterTypes(b, AfterString(b, 1)), types)]

\* Mutant: the status has all of its bits.
StatusMessageUncut(tag, status) == <<tag, status>>

\* A status message has one byte for its status, a signed char.
StatusMessage(tag, status) == <<tag, status % 256>>
DecodeStatus(b) == IF b[2] > 127 THEN b[2] - 256 ELSE b[2]

-----------------------------------------------------------------------------
(* The call.                                                               *)

ClientData(f) == [i \in 1 .. Len(f.params) |->
                    [k \in 1 .. NBytes(ArgTypes(f)[i]) |-> (16 * i + k) % 128]]
Written(n, i) == [k \in 1 .. n |-> 128 + ((16 * i + k) % 128)]

Init ==
  /\ served \in Function /\ called \in Function
  /\ restarted \in BOOLEAN
  /\ step = "register" /\ signatures = {}
  /\ wire = Register(Host, Port, served.name, ArgTypes(served))
  /\ ran = FALSE /\ serverArgs = <<>> /\ returned = 0
  /\ args = ClientData(called)
  /\ result = 0

callFrame == <<served, called, restarted>>
serverFrame == <<ran, serverArgs, returned>>
clientFrame == <<args, result>>

\* The binder gets the REGISTER; its answer carries no data.
HandleRegister ==
  /\ step = "register"
  /\ LET m == DecodeRegister(wire)
     IN signatures' = {<<SignatureOf(m.name, m.types), m.host, m.port>>}
  /\ step' = "locate"
  /\ wire' = LocateRequest(called.name, ArgTypes(called))
  /\ UNCHANGED <<callFrame, serverFrame, clientFrame>>

HandleLocate ==
  /\ step = "locate"
  /\ LET m == DecodeLocateRequest(wire)
         found == {s \in signatures : s[1] = SignatureOf(m.name, m.types)}
     IN IF found = {}
        THEN wire' = StatusMessage(LocateFailureTag, 1)
        ELSE \E s \in found : wire' = LocateSuccess(s[2], s[3])
  /\ step' = "located"
  /\ UNCHANGED <<callFrame, signatures, serverFrame, clientFrame>>

\* rpcCall hears of the server, and sends the arguments where it was told.
LocateHeard ==
  /\ step = "located"
  /\ \/ /\ wire[1] = LocateFailureTag
        /\ result' = LocateFailureStatus
        /\ step' = "done" /\ UNCHANGED wire
     \/ /\ wire[1] = LocateSuccessTag
        /\ wire' = Execute(called.name, ArgTypes(called), args)
        /\ step' = "execute" /\ UNCHANGED result
  /\ UNCHANGED <<callFrame, signatures, serverFrame, args>>

\* handle_execute.  The skeleton may write to its copy of any argument.
HandleExecute ==
  /\ step = "execute"
  /\ LET m == DecodeExecute(wire)
         known == ~restarted
                  /\ SignatureOf(m.name, m.types)
                       = SignatureOf(served.name, ArgTypes(served))
     IN \/ /\ ~known
           /\ wire' = StatusMessage(ExecuteFailureTag, UnexpectedMessage)
           /\ UNCHANGED serverFrame
        \/ /\ known
           /\ ran' = TRUE
           /\ \E overwritten \in SUBSET (1 .. Len(m.args)) :
                serverArgs' = [i \in 1 .. Len(m.args) |->
                                 IF i \in overwritten THEN Written(NBytes(m.types[i]), i)
                                 ELSE m.args[i]]
           /\ returned' \in Return
           /\ wire' = IF returned' = 0 THEN Execute(m.name, m.types, serverArgs')
                      ELSE StatusMessage(ExecuteFailureTag, returned')
  /\ step' = "reply"
  /\ UNCHANGED <<callFrame, signatures, clientFrame>>

\* Mutant: every argument is copied back.
CopyAllArgumentsBack(m) == m.args

\* The outputs are copied into the arguments of the client.
CopyOutputArgumentsBack(m) ==
  [i \in DOMAIN args |->
     IF IsOnlyOutput(m.types[i]) \/ IsInputOutput(m.types[i])
     THEN m.args[i] ELSE args[i]]

\* Mutant: a warning is as good as a success.
ReplyHeardNonNegative ==
  /\ step = "reply"
  /\ \/ /\ wire[1] = ExecuteTag
        /\ args' = CopyOutputArgumentsBack(DecodeExecute(wire))
        /\ result' = 0
     \/ /\ wire[1] = ExecuteFailureTag
        /\ result' = IF DecodeStatus(wire) > 0 THEN 0 ELSE DecodeStatus(wire)
        /\ UNCHANGED args
  /\ step' = "done"
  /\ UNCHANGED <<callFrame, signatures, serverFrame, wire>>

\* rpcCall hears of the outcome.
ReplyHeard ==
  /\ step = "reply"
  /\ \/ /\ wire[1] = ExecuteTag
        /\ args' = CopyOutputArgumentsBack(DecodeExecute(wire))
        /\ result' = 0
     \/ /\ wire[1] = ExecuteFailureTag
        /\ result' = DecodeStatus(wire)
        /\ UNCHANGED args
  /\ step' = "done"
  /\ UNCHANGED <<callFrame, signatures, serverFrame, wire>>

Done == step = "done" /\ UNCHANGED vars

Next ==
  \/ HandleRegister \/ HandleLocate \/ LocateHeard \/ HandleExecute \/ ReplyHeard
  \/ Done

Spec == Init /\ [][Next]_vars

-----------------------------------------------------------------------------
(* Properties.                                                             *)

\* What is sent are bytes, the arguments keep their sizes, and what rpcCall
\* returns is a code of its own or fits a char.
TypeOK ==
  /\ wire \in Seq(0 .. 255)
  /\ \A i \in DOMAIN args :
       args[i] \in Seq(0 .. 255) /\ Len(args[i]) = NBytes(ArgTypes(called)[i])
  /\ result \in -128 .. 127 \cup {LocateFailureStatus}
  /\ step \in {"register", "locate", "located", "execute", "reply", "done"}

\* Two functions are the same when their names are, and their parameters are
\* but for the lengths of arrays: "Ignores lengths of arrays, so that two RPCs
\* should be considered the same if and only if this type has equality"
\* (signature.h:10-12).
SameParameter(p, q) ==
  /\ p.direction = q.direction /\ p.type = q.type
  /\ p.length = 0 <=> q.length = 0

SameFunction(f, g) ==
  /\ f.name = g.name /\ Len(f.params) = Len(g.params)
  /\ \A i \in 1 .. Len(f.params) : SameParameter(f.params[i], g.params[i])

\* A function is located if and only if it is the one that was registered,
\* and at the address the server gave.
LocatedIffSame ==
  step = "located" =>
    wire = IF SameFunction(served, called) THEN LocateSuccess(Host, Port)
           ELSE StatusMessage(LocateFailureTag, 1)

\* Every field that a Serializer reads is the one that was written.
MessagesArrive ==
  /\ step = "register" =>
       DecodeRegister(wire) = [host |-> Host, port |-> Port, name |-> served.name,
                               types |-> ArgTypes(served)]
  /\ step = "locate" =>
       DecodeLocateRequest(wire) = [name |-> called.name, types |-> ArgTypes(called)]
  /\ step = "located" /\ wire[1] = LocateSuccessTag =>
       DecodeLocateSuccess(wire) = [host |-> Host, port |-> Port]
  /\ step = "execute" =>
       DecodeExecute(wire) = [name |-> called.name, types |-> ArgTypes(called),
                              args |-> ClientData(called)]

\* After the call the client's outputs are what a successful skeleton left, and
\* its other arguments what they were, whatever the skeleton wrote over; a call
\* that failed changes nothing.
OutputsComeBack ==
  step = "done" =>
    \A i \in DOMAIN args :
      args[i] = IF ran /\ returned = 0 /\ called.params[i].direction # "input"
                THEN serverArgs[i] ELSE ClientData(called)[i]

\* A skeleton that succeeds makes rpcCall return 0, and it returns 0 for no call
\* whose skeleton has not run, nor for one that failed, but with a code that is
\* 0 in its lowest byte (protocol_macros.h:34).
ZeroMeansSuccess ==
  step = "done" =>
    /\ ran /\ returned = 0 => result = 0
    /\ result = 0 => ran /\ returned % 256 = 0

\* An error of the library is negative ("Negative numbers for errors, positive
\* for warnings", message.h:7), and so is that of a skeleton.
ErrorsAreNegative ==
  step = "done" => (result < 0 <=> ~ran \/ returned < 0)

=============================================================================
