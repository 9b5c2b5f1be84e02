------------------------------- MODULE MCShell -------------------------------
(* The shell on a screen of two lines of two characters. *)
EXTENDS Shell

MCPrompt == <<"$">>

\* A command prints nothing, prints a line, rubs out what it printed, draws a
\* character the palette does not have, or takes over the screen as dinv does.
MCOutputs ==
    { <<>>, <<Write(<<"o", BackSpace, BackSpace, NewLine>>)>>,
      <<Clear, Scrollback(FALSE), CursorNoUpd(rows * cols), CursorNoUpd(1), WriteNoUpd(<<"o", BackSpace>>),
        CursorNoUpd(0), WriteNoUpd(<<"o", BadColor, NewLine>>), Scrollback(TRUE), Clear>> }
=============================================================================
