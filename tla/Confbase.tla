------------------------------ MODULE Confbase ------------------------------
(* The debugger's run: three requests, one after the other, to the          *)
(* configuration base, to the master agent and to the node agent that the   *)
(* master names.  Each sends a map over a connection of its own and reads a *)
(* map back, while the connection delivers bytes in parts and may break.    *)
(*                                                                          *)
(* The servers are not in the repository: one that has the whole request    *)
(* answers with any of the Answers, if it is a service of this protocol.    *)
EXTENDS Values

CONSTANTS
    Magic,    \* 0xCAFE, which every message starts with
    Foreign,  \* what the answer of another service starts with
    ReadMax,  \* READ_MAX: the longest answer that is read
    Answers,  \* for every request, the maps it may be answered with
    Parts     \* the sizes of the parts of a message, beside all of its rest

ASSUME MagicAssumption ==
    /\ Magic \in (Power(2) \div 2)..(Power(2) - 1)
    /\ Foreign \in 0..(Power(2) - 1) \ {Magic}
ASSUME ReadMaxAssumption == ReadMax \in 1..ByteLimit

VARIABLES
    step,     \* the request that the run has come to
    pc,       \* where it is in sendmap
    sent,     \* how many bytes of the request have been written
    answer,   \* what the server answered: a set of at most one map
    stream,   \* the bytes of the answer that have not been read
    buf,      \* the bytes that the current ReadBytes has read
    size,     \* the length of the answer
    address,  \* nodeAccessIP and nodeAccessPort
    report    \* the step's status, and the lines its callback has logged

vars == <<step, pc, sent, answer, stream, buf, size, address, report>>

Steps     == {"config", "access", "perf"}
NoAddress == <<"", 0>>
NoReport  == [status |-> "", lines |-> {}]

-----------------------------------------------------------------------------
(* Messages *)

GetConfig == PutLong(PutString(PutString(<< >>, "cmd", "get"),
                               "id", "kube_namespace"), "filetime", 0)

GetNodeAccess ==
    Put(PutString(Put(PutString(<< >>, "cmd", "regist"),
                      "kube.micro", Value(VALUE_BOOLEAN, TRUE)),
                  "onode_name", "node"), "oid", Value(VALUE_DECIMAL_INT, 9999))

GetContainerPerf == PutString(<< >>, "container_id", "id")

Request == CASE step = "config" -> GetConfig
             [] step = "access" -> GetNodeAccess
             [] step = "perf"   -> GetContainerPerf

Message(number, m) ==
    ToBytes(number, 2) \o WriteIntBytes(WriteValue(Value(VALUE_MAP, m)))

-----------------------------------------------------------------------------
(* sendmap *)

Finish(status, lines) ==
    /\ pc' = "done"
    /\ report' = [status |-> status, lines |-> lines]

\* Port 0, of an address nobody gave, is nobody's.
Dial ==
    /\ pc = "dial"
    /\ \/ /\ step = "perf" => address[2] # 0
          /\ pc' = "write"
          /\ UNCHANGED report
       \/ Finish("PROBLEM", {})
    /\ UNCHANGED <<step, sent, answer, stream, buf, size, address>>

WritePart ==
    /\ pc = "write"
    /\ LET left == Len(Message(Magic, Request)) - sent
       IN  \E n \in {left} \cup {k \in Parts : k < left} :
               /\ sent' = sent + n
               /\ pc' = IF n = left THEN "magic" ELSE pc
    /\ UNCHANGED <<step, answer, stream, buf, size, address, report>>

\* The bytes that ReadBytes is to return.
Wanted == CASE pc = "magic"  -> 2
            [] pc = "length" -> 4
            [] pc = "body"   -> size
            [] OTHER         -> 0

\* As one Read that is taken for the whole: the rest of the buffer is zero.
ReadPart_Once ==
    LET left == Wanted - Len(buf)
        Padded(b) == [i \in 1..left |-> IF i <= Len(b) THEN b[i] ELSE 0]
    IN  /\ left > 0
        /\ stream # << >>
        /\ \E n \in {Min({left, Len(stream)})} \cup {k \in Parts : k < left /\ k <= Len(stream)} :
               /\ buf' = Padded(SubSeq(stream, 1, n))
               /\ stream' = SubSeq(stream, n + 1, Len(stream))
        /\ UNCHANGED <<step, pc, sent, answer, size, address, report>>

\* One Read of the connection, which may return less than was asked for.
ReadPart ==
    LET left == Wanted - Len(buf)
    IN  /\ left > 0
        /\ stream # << >>
        /\ \E n \in {Min({left, Len(stream)})} \cup {k \in Parts : k < left /\ k <= Len(stream)} :
               /\ buf' = buf \o SubSeq(stream, 1, n)
               /\ stream' = SubSeq(stream, n + 1, Len(stream))
        /\ UNCHANGED <<step, pc, sent, answer, size, address, report>>

MagicRead ==
    /\ pc = "magic" /\ Len(buf) = Wanted
    /\ IF ToUnsigned(buf) = Magic
       THEN pc' = "length" /\ UNCHANGED report
       ELSE Finish("PROBLEM", {})
    /\ buf' = << >>
    /\ UNCHANGED <<step, sent, answer, stream, size, address>>

\* ReadIntBytesLimit.
LengthRead ==
    /\ pc = "length" /\ Len(buf) = Wanted
    /\ IF ToSigned(buf) \in 0..ReadMax
       THEN pc' = "body" /\ size' = ToSigned(buf) /\ UNCHANGED report
       ELSE Finish("PROBLEM", {}) /\ UNCHANGED size
    /\ buf' = << >>
    /\ UNCHANGED <<step, sent, answer, stream, address>>

Lines(m) == {[key |-> m[i].key, val |-> m[i].val] : i \in DOMAIN m}

\* The answer becomes a map, which the request's callback is given; an answer
\* that cannot be read ends the program.
BodyRead ==
    LET r == ReadMapValue(buf, 1)
        m == r.v.v
    IN  /\ pc = "body" /\ Len(buf) = Wanted
        /\ buf' = << >>
        /\ \/ ~r.ok /\ pc' = "aborted" /\ UNCHANGED <<address, report>>
           \/ /\ r.ok /\ step = "config"
              /\ Finish("OK", IF GetBool(m, "ok") THEN Lines(GetMap(m, "config")) ELSE {})
              /\ UNCHANGED address
           \/ /\ r.ok /\ step = "access"
              /\ Finish("OK", {})
              /\ address' = IF GetBool(m, "ok")
                            THEN <<GetString(m, "node.agent.ip"),
                                   ToSigned(ToBytes(GetInt(m, "node.agent.port"), 4))>>
                            ELSE address
           \/ /\ r.ok /\ step = "perf"
              /\ Finish("OK", Lines(m))
              /\ UNCHANGED address
        /\ UNCHANGED <<step, sent, answer, stream, size>>

\* A write or a read fails: the connection is broken, or the server closed it.
Break ==
    /\ pc = "write" \/ Len(buf) < Wanted
    /\ Finish("PROBLEM", {})
    /\ UNCHANGED <<step, sent, answer, stream, buf, size, address>>

\* The run goes on whatever became of the request.
Proceed ==
    /\ pc = "done"
    /\ step' = CASE step = "config" -> "access" [] step = "access" -> "perf"
                 [] step = "perf" -> "ended"
    /\ pc' = IF step = "perf" THEN "ended" ELSE "dial"
    /\ sent' = 0 /\ answer' = {} /\ stream' = << >> /\ buf' = << >> /\ size' = 0
    /\ report' = NoReport
    /\ UNCHANGED address

-----------------------------------------------------------------------------
(* The servers *)

Answer ==
    /\ pc = "magic" /\ answer = {} /\ stream = << >> /\ buf = << >>
    /\ \E m \in Answers[step] :
           /\ answer' = {m}
           /\ stream' = Message(Magic, m)
    /\ UNCHANGED <<step, pc, sent, buf, size, address, report>>

\* Something that is not of this protocol listens at the port.
OtherAnswer ==
    /\ pc = "magic" /\ answer = {} /\ stream = << >> /\ buf = << >>
    /\ stream' = ToBytes(Foreign, 2)
    /\ UNCHANGED <<step, pc, sent, answer, buf, size, address, report>>

Init ==
    /\ step = "config" /\ pc = "dial"
    /\ sent = 0 /\ answer = {} /\ stream = << >> /\ buf = << >> /\ size = 0
    /\ address = NoAddress
    /\ report = NoReport

Next == \/ Dial \/ WritePart \/ ReadPart \/ MagicRead \/ LengthRead \/ BodyRead
        \/ Break \/ Proceed \/ Answer \/ OtherAnswer

Spec == Init /\ [][Next]_vars

-----------------------------------------------------------------------------
(* Properties *)

\* Every answer that a reader may rely on, at whatever boundary its numbers,
\* lengths and counts are, reads back as what was written and to its last
\* byte; so does every request, but for the number of a fixed width in the
\* second.  This is about the agreement of DataOutputX with DataInputX, and
\* of the Write with the Read of every type of value.
WrittenIsRead ==
    /\ \A m \in answer : LET x == Value(VALUE_MAP, m) IN Readable(x) => ReadsBack(x)
    /\ step \in Steps => LET x == Value(VALUE_MAP, Request) IN Readable(x) => ReadsBack(x)

\* What the callback of a request is to get of an answer.
Promised(m) ==
    CASE step = "config" -> IF GetBool(m, "ok") THEN Lines(GetMap(m, "config")) ELSE {}
      [] step = "access" -> {}
      [] step = "perf"   -> Lines(m)

\* However the answer's bytes arrive: a step that is reported as OK has logged
\* the whole answer of the server it asked, one that is reported as a problem
\* has logged nothing, the node's address is the one the master gave, and no
\* answer that a reader may rely on ends the program.
ReportIsTheAnswer ==
    LET readable == {m \in answer : Readable(Value(VALUE_MAP, m))}
        given    == {ByPointer(Value(VALUE_MAP, m)).v : m \in readable}
    IN  /\ report.status = "OK" => answer # {}
        /\ report.status = "OK" => \A m \in given : report.lines = Promised(m)
        /\ report.status = "PROBLEM" => report.lines = {}
        /\ report.status = "OK" /\ step = "access" =>
               \A m \in given : GetBool(m, "ok") =>
                   /\ address[1] = GetString(m, "node.agent.ip")
                   /\ Fits(GetInt(m, "node.agent.port"), 4) =>
                          address[2] = GetInt(m, "node.agent.port")
        /\ pc = "aborted" => given = {}
=============================================================================
