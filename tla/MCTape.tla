------------------------------- MODULE MCTape -------------------------------
EXTENDS Tape

MCFiles == {[sort |-> "raw", size |-> 3, data |-> 0],
            [sort |-> "wav", size |-> 7, data |-> 3],
            NoFile}
Spec == TapeInit /\ [][TapeNext]_tapeVars /\ WF_tapeVars(TapeLoop)
        /\ WF_tapeVars(Fetch) /\ WF_tapeVars(PlayOut)
=============================================================================
