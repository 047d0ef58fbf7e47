---------------------------- MODULE MessageParts ----------------------------
(***************************************************************************)
(* A Gmail message is a tree of MIME parts, which the worker and the API   *)
(* walk each in its own way: storeMessageInDB counts the attachments of    *)
(* the whole tree for the row, HandleGetGmailMessages looks for files in   *)
(* the parts of the root and for a text in all of them.  What they walk is *)
(* Gmail's answer to Messages.Get, which depends on the format asked for:  *)
(* the worker asks for "metadata", the API for "full" and, where that is   *)
(* refused, for "metadata".                                                *)
(*                                                                         *)
(* The parts of a tree are numbered in the order in which it is written,   *)
(* the root is 1, and a text is the number of its part; 0 is "".  Of a     *)
(* part there is whether it names a file, and its Body: nil, without Data, *)
(* with Data that does not decode, or with Data that does, and then its    *)
(* type.                                                                   *)
(*                                                                         *)
(* A definition directly above another with the same parameters, and a     *)
(* name that says what went wrong, is a seeded bug of the one below it.    *)
(***************************************************************************)
EXTENDS Naturals, FiniteSets, FiniteSetsExt

CONSTANT MaxParts   \* bound on the parts of a message

ASSUME MaxPartsAssumption == MaxParts \in Nat \ {0}

VARIABLES
    payload,  \* message.Payload, as Gmail has it
    row,      \* the message's row in gmail_messages, if any: the attachments,
              \* and the payload they were counted in (observed)
    answer    \* the body and attachments in the API's last answer

vars == <<payload, row, answer>>

Readable == {"text/plain", "text/html", "other type"}
MessagePart == [file : BOOLEAN, body : {"nil", "no data", "broken"} \union Readable]

\* Whatever comes between a part and its holder is in the holder as well.
Preorder(holder, n) ==
    \A i \in 2..n : holder[i] < i /\ \A j \in holder[i]+1 .. i-1 : holder[i] <= holder[j]

Payloads == UNION {[part : [1..n -> MessagePart],
                    holder : {h \in [2..n -> 1..n] : Preorder(h, n)}] : n \in 1..MaxParts}

All(p) == DOMAIN p.part
Parts(p, n) == {i \in DOMAIN p.holder : p.holder[i] = n}
Decodes(p, n) == p.part[n].body \in Readable

\* In the format "metadata" there are the headers and no Body; the code is
\* ready for parts as well, though Gmail's documentation tells of none.
NoData(part) == [part EXCEPT !.body = "nil"]
Headers(p) == [part |-> <<NoData(p.part[1])>>, holder |-> [i \in {} |-> i]]
WithoutData(p) == [p EXCEPT !.part = [i \in DOMAIN p.part |-> NoData(p.part[i])]]
Metadata(p) == {Headers(p), WithoutData(p)}

NoAnswer == [format |-> "none", body |-> 0, has_attachments |-> FALSE]

TypeOK ==
    /\ \E n \in 1..MaxParts :
          payload.part \in [1..n -> MessagePart] /\ payload.holder \in [2..n -> 1..n]
    /\ row \subseteq [of : Metadata(payload), has_attachments : BOOLEAN,
                      attachment_count : 0..Cardinality(All(payload))]
    /\ Cardinality(row) <= 1
    /\ answer \in [format : {"none", "metadata", "full"},
                   body : 0..Cardinality(All(payload)), has_attachments : BOOLEAN]

Init ==
    /\ payload \in Payloads
    /\ row = {}
    /\ answer = NoAnswer

\* countAttachments: the part itself, and the parts it holds.
CountAttachmentsTwice(p) ==
    LET count[n \in All(p)] == (IF p.part[n].file THEN 2 ELSE 0)
                                   + MapThenSumSet(LAMBDA i : count[i], Parts(p, n))
    IN  count[1]
CountAttachmentsBelow(p) ==
    LET count[n \in All(p)] ==
            MapThenSumSet(LAMBDA i : count[i] + IF p.part[i].file THEN 1 ELSE 0, Parts(p, n))
    IN  count[1]
CountAttachments(p) ==
    LET count[n \in All(p)] == (IF p.part[n].file THEN 1 ELSE 0)
                                   + MapThenSumSet(LAMBDA i : count[i], Parts(p, n))
    IN  count[1]

\* The parts the loop of ExtractMessageBody does not skip.
NotSkippedAny(p, n) == Parts(p, n)
NotSkipped(p, n) == {i \in Parts(p, n) : ~p.part[i].file}

\* The part's own data, of any type (the root's too when it names a file); or
\* else, of the first part it holds that has any, what decodes as text/plain, or as
\* text/html, or is found further down.
ExtractMessageBody(p) ==
    LET body[n \in All(p)] ==
            LET ofPart(i) == IF p.part[i].body = "text/plain" THEN i
                             ELSE IF p.part[i].body = "text/html" THEN i
                             ELSE body[i]
                found == {i \in NotSkipped(p, n) : ofPart(i) # 0}
            IN  IF Decodes(p, n) THEN n
                ELSE IF found = {} THEN 0 ELSE ofPart(Min(found))
    IN  body[1]

\* Body.Size is not 0 when there is data, broken or not.
RowOf(p) ==
    [of |-> p,
     has_attachments |-> \/ Cardinality(Parts(p, 1)) > 1
                         \/ p.part[1].body \notin {"nil", "no data"} /\ Parts(p, 1) # {},
     attachment_count |-> CountAttachments(p)]

\* storeMessageInDB of the message that was fetched.
StoreMessage ==
    /\ row = {}
    /\ \E p \in Metadata(payload) : row' = {RowOf(p)}
    /\ UNCHANGED <<payload, answer>>

HasFile(p) == \E i \in Parts(p, 1) : p.part[i].file

\* A root without a Body is taken for one of which there is only metadata, and
\* its parts are not read.
AnswerOf(format, p) ==
    [format |-> format,
     body |-> IF p.part[1].body # "nil" THEN ExtractMessageBody(p) ELSE 0,
     has_attachments |-> HasFile(p)]

\* HandleGetGmailMessages with the full message, or, where the scope does not
\* allow that, with its metadata.
ReadMessage ==
    /\ answer' = AnswerOf("full", payload)
    /\ UNCHANGED <<payload, row>>

ReadMetadata ==
    /\ \E p \in Metadata(payload) : answer' = AnswerOf("metadata", p)
    /\ UNCHANGED <<payload, row>>

Next == StoreMessage \/ ReadMessage \/ ReadMetadata

Spec == Init /\ [][Next]_vars

(***************************************************************************)
(* Properties                                                              *)
(***************************************************************************)

\* A text of the message is not lost, whatever stands around it: when some part of
\* the full message that is plain text or HTML decodes, and no attachment holds it,
\* the answer has a body, and one that begins no later; so HTML is answered only
\* where no plain text comes before it, and a part of another type only where no
\* text does.  And what is answered is never the inside of an attachment.
\* A message whose root has no Body is left out: the API takes it for metadata
\* (ExtractMessageBody, HandleGetGmailMessages).
Holders(p) ==
    LET up[n \in All(p)] == IF n = 1 THEN {} ELSE {n} \union up[p.holder[n]] IN up

Attached(p, n) == \E i \in Holders(p)[n] : p.part[i].file
Texts(p) == {n \in All(p) : p.part[n].body \in {"text/plain", "text/html"} /\ ~Attached(p, n)}

BodyIsFirstText ==
    answer.format = "full" =>
        /\ payload.part[1].body # "nil" => \A n \in Texts(payload) : answer.body \in 1..n
        /\ answer.body # 0 => Decodes(payload, answer.body) /\ ~Attached(payload, answer.body)

\* The row counts every file of the payload it was made from once, at any
\* depth; and where that had its parts, the API, which looks at the parts of
\* the root alone, never tells of attachments and the row of none
\* (countAttachments, and the loop of HandleGetGmailMessages).
Files(p) == {n \in All(p) : p.part[n].file}

CountIsFiles ==
    \A r \in row :
        /\ r.attachment_count = Cardinality(Files(r.of))
        /\ r.of = WithoutData(payload) /\ answer.has_attachments => r.attachment_count > 0
=============================================================================
