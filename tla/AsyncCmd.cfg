SPECIFICATION Spec
CONSTANT Pids <- MCPids
INVARIANTS  NoForgottenChild OneRecorder
PROPERTIES  StopFreesSlot WaitLetsGo RestartServes 
