SPECIFICATION FairSpec
CONSTANTS
  tts = tts  asr = asr  huge = huge  cpu = cpu  c1 = c1  c2 = c2
  Clients = {c1, c2}
  Models = {tts, asr}
  Main = Main  Nobody = Nobody  NoModel = NoModel
  Cost <- ModelCost
  MaxVRAM = 2
  Readings = {}
  IdleTimeout = {tts}
  Unleased = {asr}
  Modes = {"acquire", "start"}
INVARIANT BudgetRespected
PROPERTIES CallsEnd IdleModelsUnload
