-------------------------------- MODULE Wire --------------------------------
(***************************************************************************)
(* pkg/message/wire.go: the layout of a batch in a buffer.  A buffer is a  *)
(* sequence of cells, one for each header field and one for each unit of   *)
(* payload; a message is a sequence of cells.                              *)
(***************************************************************************)
EXTENDS Integers, Sequences, SequencesExt

CmdPostSend == 230
CmdHeaderSize == 2      \* the command and its reserved field
AppHeaderSize == 2      \* the time stamp and the size
Reserved == 0
Now == 0                \* nothing reads the time stamp

EncodeCmdHeader(cmd) == <<cmd, Reserved>>
EncodeAppHeader(size) == <<Now, size>>

PackBatch(messages) ==
    EncodeCmdHeader(CmdPostSend)
        \o FlattenSeq([i \in DOMAIN messages |->
                         EncodeAppHeader(Len(messages[i])) \o messages[i]])

(* Mutant: a batch that is cut short yields the messages it has.            *)
UnpackBatchCutShort(data) ==
    LET messagesFrom[offset \in 0..Len(data)] ==
          IF offset + AppHeaderSize > Len(data) THEN << >>
          ELSE LET first == offset + AppHeaderSize
                   past == first + data[first]
               IN IF past > Len(data) THEN << >>
                  ELSE <<SubSeq(data, first + 1, past)>> \o messagesFrom[past]
    IN IF Len(data) >= CmdHeaderSize /\ data[1] = CmdPostSend
       THEN {messagesFrom[CmdHeaderSize]} ELSE {}

(* The messages from each offset of a buffer on, as a set of one sequence;  *)
(* empty if a header or a payload there runs past the end.                  *)
MessagesFrom(data) ==
    LET messagesFrom[offset \in 0..Len(data)] ==
          IF offset = Len(data) THEN {<< >>}
          ELSE IF offset + AppHeaderSize > Len(data) THEN {}
          ELSE LET first == offset + AppHeaderSize
                   past == first + data[first]
               IN IF past > Len(data) THEN {}
                  ELSE {<<SubSeq(data, first + 1, past)>> \o rest :
                            rest \in messagesFrom[past]}
    IN messagesFrom

(* The messages of a buffer: a header or a payload that runs past the end   *)
(* spoils the whole batch, as any other command does.                       *)
UnpackBatch(data) ==
    IF Len(data) >= CmdHeaderSize /\ data[1] = CmdPostSend
    THEN MessagesFrom(data)[CmdHeaderSize] ELSE {}
=============================================================================
