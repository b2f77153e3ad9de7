------------------------------ MODULE MCMonitor ------------------------------
(* Panic on a monitor with two commands, one of whose names begins with the other. *)
EXTENDS Panic

MCPrompt == <<">">>
MCGreeting == <<"!">>
MCCommands == << [name |-> <<"a">>, desc |-> <<>>, func |-> "mon_backtrace"],
                 [name |-> <<"a", "b">>, desc |-> <<>>, func |-> "mon_help"] >>
MCReports == [mon_backtrace |-> <<"1", "NL", "2">>]
MCComplaint == <<"?">>
MCFormats == <<"x", "y">>
MCMessage(fmt) == <<fmt>>
MCWarning == <<"w">>
=============================================================================
