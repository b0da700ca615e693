--------------------------- MODULE DecodeAttention ---------------------------
(* What a decode trace promises, whatever the emission mode and loop order:   *)
(* for every token and layer the new row is appended first, then K and then V *)
(* are streamed, and a stream ends only when every line of every position up  *)
(* to the current one has received the whole compute of its query-head group. *)
EXTENDS KvShape

CONSTANT Configs        \* the command lines considered

VARIABLES args, token, layer, stage,
          cached,       \* <<layer, cell>> appended by this decode
          work          \* per stream, the compute spent on each cell so far

vars == <<args, token, layer, stage, cached, work>>

Position == args.context_len + token
NoWork == [c \in Cells(args) |-> 0]
NewRow == {c \in Cells(args) : c[3] = Position}
Visible == {c \in Cells(args) : c[3] <= Position}
Owed(S) == ComputePerLine(args, S) * group_size(args)

Init ==
    /\ args \in {a \in Configs : validate_args(a)}
    /\ token = 0 /\ layer = 0 /\ stage = "append"
    /\ cached = {}
    /\ work = [S \in Streams |-> [c \in Cells(args) |-> 0]]

NextLayer ==
    IF layer + 1 < args.num_layers
    THEN token' = token /\ layer' = layer + 1 /\ stage' = "append"
    ELSE IF token + 1 < args.decode_tokens
         THEN token' = token + 1 /\ layer' = 0 /\ stage' = "append"
         ELSE UNCHANGED <<token, layer>> /\ stage' = "done"

(* A line of the new row is written, in any order.                            *)
Append ==
    /\ stage = "append"
    /\ \E c \in NewRow :
          /\ <<layer, c>> \notin cached
          /\ cached' = cached \cup {<<layer, c>>}
    /\ \/ stage' = "append" /\ work' = work
       \/ /\ \A c \in NewRow : <<layer, c>> \in cached'
          /\ stage' = "K"
          /\ work' = [work EXCEPT !["K"] = NoWork]
    /\ UNCHANGED <<args, token, layer>>

(* Some line of the stream is given some of the compute it is still owed.     *)
Attend(S) ==
    /\ stage = S
    /\ \E c \in Visible, n \in 1 .. Owed(S) :
          LET spent == [work[S] EXCEPT ![c] = @ + n] IN
          /\ spent[c] <= Owed(S)
          /\ \/ /\ work' = [work EXCEPT ![S] = spent]
                /\ UNCHANGED <<token, layer, stage>>
             \/ /\ \A d \in Visible : spent[d] = Owed(S)
                /\ IF S = "K"
                   THEN /\ stage' = "V"
                        /\ work' = [work EXCEPT !["K"] = spent, !["V"] = NoWork]
                        /\ UNCHANGED <<token, layer>>
                   ELSE /\ work' = [work EXCEPT ![S] = spent]
                        /\ NextLayer
    /\ UNCHANGED <<args, cached>>

Next == Append \/ \E S \in Streams : Attend(S)

Spec == Init /\ [][Next]_vars
==============================================================================
