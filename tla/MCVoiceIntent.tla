--------------------------- MODULE MCVoiceIntent ---------------------------
(* Instances of VoiceIntent for TLC. *)
EXTENDS VoiceIntent

LeapDay == [year |-> 2028, month |-> 2, day |-> 29, minutes |-> 17 * 60]     \* a Tuesday
LastMinute == [year |-> 2027, month |-> 12, day |-> 31, minutes |-> 1439]    \* a Friday

TimeWords == {"may", "february", "third", "29", "twenty", "first", "tomorrow", "friday",
              "this", "next", "five", "7", "pm", "5:30"}
EditWords == {"change", "to", "with", "hi", "there", "send", "it", "the", "reply",
              "reject", "all"}
TurnWords == {"change", "to", "for", "um", "the", "word", "hi"}
OrderWords == {"approve", "send", "draft", "schedule", "it", "reject", "read", "the",
               "reply", "second", "my", "two", "pm"}
OtherWords == {"edit", "regenerate", "reschedule", "body", "open", "rules", "cancel",
               "clear", "all", "what", "emails", "any", "help"}

MCScenes ==
  {[now |-> n, words |-> TimeWords, length |-> 4] : n \in {LeapDay, LastMinute}} \cup
  {[now |-> LastMinute, words |-> EditWords, length |-> 5],
   [now |-> LastMinute, words |-> TurnWords, length |-> 6],
   [now |-> LeapDay, words |-> OrderWords, length |-> 4],
   [now |-> LeapDay, words |-> OtherWords, length |-> 3]}
=============================================================================
