CONSTANT
  ProgramClasses <- MCProgramClasses
  MemberNames <- MCMemberNames
  Programs <- MCPrograms
SPECIFICATION ClassSpec
INVARIANT ResolverInv
INVARIANT AcceptsWhatFollowsTheRules
INVARIANT NearestFound
PROPERTY SearchEnds
