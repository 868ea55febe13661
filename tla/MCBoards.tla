------------------------------- MODULE MCBoards -------------------------------
EXTENDS Boards

==============================================================================
