SPECIFICATION Spec
CONSTANTS
    Blocks <- MCBlocks
INVARIANTS
    CompiledBlocksAgree
    
