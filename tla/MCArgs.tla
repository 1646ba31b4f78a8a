------------------------------- MODULE MCArgs -------------------------------
(***************************************************************************)
(* All the command lines of up to MaxArgs arguments from a list of texts   *)
(* that holds every form of an option, and the commands of the shells.     *)
(***************************************************************************)
EXTENDS Args, SequencesExt

CONSTANT MaxArgs

Texts ==
  {<<"-", "-", "port">>, <<"-", "-", "po">>, <<"-", "-", "port", "=", "80">>,
   <<"-", "-", "port", "=">>, <<"-", "-", "bogus">>, <<"-", "-">>, <<"-", "-", "=", "80">>,
   <<"-", "-", "mode", "=", "tcp">>, <<"-", "-", "help">>, <<"-", "-", "debug", "=", "80">>,
   <<"-", "p">>, <<"-", "p", "80">>, <<"-", "d">>, <<"-", "d", "p">>, <<"-", "d", "p", "80">>,
   <<"-", "m", "p">>, <<"-", "m">>, <<"-", "d", "v">>, <<"-", "x">>, <<"-", "v">>,
   <<"-">>, <<>>, <<"80">>, <<"tcp">>}

CompletedTexts ==
  {<<"-">>, <<"-", "-">>, <<"-", "-", "po">>, <<"-", "p">>, <<"-", "m">>, <<"-", "d", "m">>,
   <<"-", "-", "mode">>, <<"-", "x">>, <<"t">>, <<"tcp">>, <<"80">>, <<>>}

ShellLines ==
  {<<c>> : c \in {<<"completion">>, <<"__complete">>}}
    \cup ({<<"completion">>, <<"__complete">>} \X {<<"bash">>, <<"zsh">>, <<"fish">>, <<"sh">>})
    \cup ({<<"__complete">>} \X {<<"bash">>} \X CompletedTexts \X CompletedTexts \X {<<"80">>, <<"1">>, <<"x">>})

MCLines == BoundedSeq(Texts, MaxArgs) \cup ShellLines

MCNumerals == (<<>> :> 0) @@ (<<"80">> :> 80) @@ (<<"1">> :> 1)
=============================================================================
